---- MODULE Spec2Model ----
(***************************************************************************)
(* A model of gddo (GoPkgDoc): the Redis document store driven by Lua      *)
(* scripts (database/database.go), the crawler (gddo-server/crawl.go) and  *)
(* the request-driven refresh (gddo-server/main.go).                       *)
(*                                                                         *)
(* Import paths are sequences of one-character strings, so that the        *)
(* byte-level prefix tests of the code (strings.HasPrefix, KEYS id:root*,  *)
(* path[len(root)] == '/') are computed and not assumed.  A search term is *)
(* a pair <<prefix, body>>: <<"project:", root>> is the term whose index   *)
(* set is the Redis key index:project:<root>.                              *)
(***************************************************************************)
EXTENDS Integers, Sequences, FiniteSets, TLC

VARIABLES
    db,       \* the Redis store: id:<path>, pkg:<id>, index:<term>, crawl, block, maxPackageId
    now,      \* time.Now().Unix()
    univ,     \* the import paths the clients of this behaviour use
    blk,      \* the position of a running Database.Block call
    last,     \* the store operation that ran last: "", "put", "touch", "delete"
    cr,       \* the crawlDoc calls: one of the request-driven task, one of the crawl loop
    loop,     \* the position of the background crawl loop
    rq,       \* the request being served (getDoc or serveRefresh) and its channel c
    qy,       \* the Database.Query call in progress
    call,     \* the call of a function of the packages doc and index: arguments and result
    idx       \* the in-memory Index: pkgs, ids, rindex

vars == <<db, now, univ, blk, last, cr, loop, rq, qy, call, idx>>

\* what the server's store, crawls and requests leave alone
aux == <<qy, call, idx>>

\* what the store's own clients leave alone
crawlVars == <<cr, loop, rq, aux>>

-----------------------------------------------------------------------------
(* Bounds of the model *)

MaxId == 2
MaxTime == 1

-----------------------------------------------------------------------------
(* Import paths, terms and etags used as inputs *)

PA == <<"a">>
PAB == <<"a", "/", "b">>
PAb == <<"a", "b">>
PMirror == <<"a", "/", "s", "r", "c", "/", "p", "k", "g", "/", "f", "m", "t">>
PGU == <<"g", "i", "t", "h", "u", "b", ".", "c", "o", "m", "/", "u">>
PNest == <<"a", "/">> \o PGU

AllPaths == {PA, PAB, PAb, PMirror, PGU, PNest}

Roots == {PA, PGU}

ProjectTerm(root) == <<"project:", root>>

WordTerm == <<"", <<"x">>>>

Terms == {WordTerm} \cup {ProjectTerm(r) : r \in Roots}

TermStrings ==
    {<<>>, <<WordTerm, WordTerm>>, <<ProjectTerm(PA), WordTerm>>}

Etags == {"e1", "e2"}

Ids == 1..MaxId

NoPkg == [path |-> <<>>, terms |-> <<>>, etag |-> "", gob |-> ""]

NoScore == -1

\* no Query is running
IdleQuery == [pc |-> "idle", terms |-> <<>>, tmp |-> {}, result |-> {}]

\* no function has been called
NoCall == [fn |-> ""]

-----------------------------------------------------------------------------
(* Helpers *)

Range(s) == {s[i] : i \in 1..Len(s)}

Count(s, t) == Cardinality({i \in 1..Len(s) : s[i] = t})

HasPrefix(s, p) == Len(p) <= Len(s) /\ SubSeq(s, 1, Len(p)) = p

-----------------------------------------------------------------------------
(* The store after construction: no keys *)

EmptyDb ==
    [id |-> [p \in AllPaths |-> 0],
     pkg |-> [i \in Ids |-> NoPkg],
     index |-> [t \in Terms |-> {}],
     crawl |-> [i \in Ids |-> NoScore],
     block |-> {},
     maxPackageId |-> 0]

Exists(d, path) == d.id[path] # 0

-----------------------------------------------------------------------------
(* putScript *)

\* the terms of the stored record, '' when the hash or the field is missing
storedTerms(d, id) == IF id \in Ids THEN d.pkg[id].terms ELSE <<>>

\* update[term]: 1 for a term of the stored terms, plus 2 for every
\* occurrence of the term in the new terms string
putUpdate(old, new, t) == (IF t \in Range(old) THEN 1 ELSE 0) + 2 * Count(new, t)

putIndex(d, id, terms) ==
    [t \in Terms |->
        LET x == putUpdate(storedTerms(d, id), terms, t) IN
        IF x = 1 THEN d.index[t] \ {id}
        ELSE IF x = 2 THEN d.index[t] \cup {id}
        ELSE d.index[t]]

\* faulty variant: the ZADD without the test of the stored score
putCrawlAlways(d, id, crawl) == [d.crawl EXCEPT ![id] = crawl]

putCrawl(d, id, crawl) ==
    LET c == d.crawl[id] IN
    IF c = NoScore \/ c < crawl THEN [d.crawl EXCEPT ![id] = crawl] ELSE d.crawl

\* faulty variant: a new path takes the least id that has no record
putScriptLeastFreeId(d, path, gob, terms, etag, crawl) ==
    LET isNew == d.id[path] = 0
        free == {i \in Ids : d.pkg[i] = NoPkg}
        id == IF isNew THEN CHOOSE i \in free : \A j \in free : i <= j ELSE d.id[path]
    IN  [id |-> [d.id EXCEPT ![path] = id],
         maxPackageId |-> IF id > d.maxPackageId THEN id ELSE d.maxPackageId,
         index |-> putIndex(d, id, terms),
         crawl |-> putCrawl(d, id, crawl),
         pkg |-> [d.pkg EXCEPT ![id] = [path |-> path, terms |-> terms, etag |-> etag, gob |-> gob]],
         block |-> d.block]

putScript(d, path, gob, terms, etag, crawl) ==
    LET isNew == d.id[path] = 0
        id == IF isNew THEN d.maxPackageId + 1 ELSE d.id[path]
    IN  [id |-> [d.id EXCEPT ![path] = id],
         maxPackageId |-> IF isNew THEN d.maxPackageId + 1 ELSE d.maxPackageId,
         index |-> putIndex(d, id, terms),
         crawl |-> putCrawl(d, id, crawl),
         pkg |-> [d.pkg EXCEPT ![id] = [path |-> path, terms |-> terms, etag |-> etag, gob |-> gob]],
         block |-> d.block]

\* INCR maxPackageId stays within the ids of the model
CanPut(d, path) == Exists(d, path) \/ d.maxPackageId < MaxId

-----------------------------------------------------------------------------
(* touchScript *)

touchPath(d, id, crawl) == IF id # 0 THEN [d.crawl EXCEPT ![id] = crawl] ELSE d.crawl

\* faulty variant: the etag test of the loop dropped
touchSiblingsAnyEtag(d, root, id, etag) ==
    {i \in d.index[ProjectTerm(root)] : d.pkg[i] # NoPkg /\ i # id}

\* SORT index:project:<root> GET # GET pkg:*->etag, filtered by the loop's test
touchSiblings(d, root, id, etag) ==
    {i \in d.index[ProjectTerm(root)] : d.pkg[i] # NoPkg /\ d.pkg[i].etag = etag /\ i # id}

touchScript(d, root, path, etag, crawl) ==
    LET id == d.id[path]
        c1 == touchPath(d, id, crawl)
        sib == touchSiblings(d, root, id, etag)
    IN  [d EXCEPT !.crawl = [i \in Ids |-> IF i \in sib THEN crawl ELSE c1[i]]]

-----------------------------------------------------------------------------
(* deleteScript *)

deleteIndex(d, id) ==
    [t \in Terms |-> IF t \in Range(storedTerms(d, id)) THEN d.index[t] \ {id} ELSE d.index[t]]

\* faulty variant: the ZREM left out
deleteCrawlNoZrem(d, id) == d.crawl

deleteCrawl(d, id) == [d.crawl EXCEPT ![id] = NoScore]

deleteScript(d, path) ==
    LET id == d.id[path] IN
    IF id = 0 THEN d
    ELSE [d EXCEPT !.index = deleteIndex(d, id),
                   !.crawl = deleteCrawl(d, id),
                   !.pkg = [d.pkg EXCEPT ![id] = NoPkg],
                   !.id = [d.id EXCEPT ![path] = 0]]

-----------------------------------------------------------------------------
(* Database.Block: SADD, KEYS id:<root>*, then one deleteScript per key *)

blockKeys(d, root) == {p \in AllPaths : Exists(d, p) /\ HasPrefix(p, root)}

blockMatches(path, root) ==
    path = root \/ (HasPrefix(path, root) /\ path[Len(root) + 1] = "/")

IdleBlk == [pc |-> "idle", root |-> <<>>, keys |-> {}]

-----------------------------------------------------------------------------
(* isBlockedScript: the prefixes of the path that end where a segment ends *)

segmentEnds(path) ==
    {n \in 1..Len(path) : path[n] # "/" /\ (n = Len(path) \/ path[n + 1] = "/")}

RECURSIVE rebuilt(_, _)
\* the string the script has built when it has consumed path[1..n]: the
\* segments matched by '[^/]+' so far, joined by single slashes
rebuilt(path, n) ==
    IF n = 0 THEN <<>>
    ELSE IF path[n] = "/" /\ (n = 1 \/ path[n - 1] = "/") THEN rebuilt(path, n - 1)
    ELSE Append(rebuilt(path, n - 1), path[n])

\* faulty variant: SISMEMBER on every prefix, not only where a segment ends
isBlockedAnyPrefix(d, path) ==
    \E n \in 1..Len(path) : SubSeq(path, 1, n) \in d.block

isBlockedScript(d, path) ==
    \E n \in segmentEnds(path) : rebuilt(path, n) \in d.block

-----------------------------------------------------------------------------
(* getDocScript with path "-": ZRANGE crawl 0 0, the member of least score, *)
(* the least id among those (ids of one digit sort as numbers)             *)

oldestId(d) ==
    LET scored == {i \in Ids : d.crawl[i] # NoScore} IN
    IF scored = {} THEN 0
    ELSE CHOOSE i \in scored :
            \A j \in scored : d.crawl[i] < d.crawl[j] \/ (d.crawl[i] = d.crawl[j] /\ i <= j)

-----------------------------------------------------------------------------
(* crawlDoc *)

Procs == {"web", "bg"}

IdleCrawl ==
    [pc |-> "idle", path |-> <<>>, old |-> "", err |-> "", why |-> "",
     new |-> "", updated |-> 0, called |-> FALSE, op |-> ""]

\* id, path, etag, lastCrawl: the record Get("-") returned; prevId, prevCrawl:
\* the one it returned in the iteration before (0: none)
IdleLoop == [pc |-> "get", id |-> 0, path |-> <<>>, etag |-> "", lastCrawl |-> 0,
             prevId |-> 0, prevCrawl |-> 0]

\* strings.Index: the 0-based place of the first occurrence of sub, or -1
Index(s, sub) ==
    LET at == {i \in 0..(Len(s) - Len(sub)) : SubSeq(s, i + 1, i + Len(sub)) = sub} IN
    IF at = {} THEN -1 ELSE CHOOSE i \in at : \A j \in at : i <= j

Suffix(s, i) == SubSeq(s, i + 1, Len(s))

StandardPaths == {<<"f", "m", "t">>}

IsGoRepoPath(path) == path \in StandardPaths

SrcPkg == <<"/", "s", "r", "c", "/", "p", "k", "g", "/">>
LibgoGo == <<"/", "l", "i", "b", "g", "o", "/", "g", "o", "/">>

isMirror(path, dir) ==
    LET i == Index(path, dir) IN i > 0 /\ IsGoRepoPath(Suffix(path, i + Len(dir)))

NestedHosts ==
    {<<"g", "i", "t", "h", "u", "b", ".", "c", "o", "m">>,
     <<"l", "a", "u", "n", "c", "h", "p", "a", "d", ".", "n", "e", "t">>,
     <<"c", "o", "d", "e", ".", "g", "o", "o", "g", "l", "e", ".", "c", "o", "m", "/", "p">>,
     <<"b", "i", "t", "b", "u", "c", "k", "e", "t", ".", "o", "r", "g">>,
     <<"l", "a", "b", "i", "x", ".", "o", "r", "g">>}

\* nestedProjectPat.FindStringIndex: the start of the leftmost match, or -1
nestedProjectAt(path) ==
    LET at == {Index(path, <<"/">> \o h \o <<"/">>) : h \in NestedHosts} \ {-1} IN
    IF at = {} THEN -1 ELSE CHOOSE i \in at : \A j \in at : i <= j

isNestedCopy(d, path) ==
    LET m == nestedProjectAt(path) IN
    m >= 0 /\ Suffix(path, m + 1) \in AllPaths /\ Exists(d, Suffix(path, m + 1))

\* the checks made before the fetch, in the order of the code; "" when none fires
crawlPrecheck(d, path) ==
    IF isMirror(path, SrcPkg) THEN "mirror"
    ELSE IF isMirror(path, LibgoGo) THEN "libgo"
    ELSE IF isNestedCopy(d, path) THEN "nested"
    ELSE ""

\* the project root the fetchers give a package
ProjectRootOf(path) == IF HasPrefix(path, PGU) THEN PGU ELSE PA

DocumentTerms(path) == <<ProjectTerm(ProjectRootOf(path)), WordTerm>>

\* doc.Get(client, path, etag): a package of another revision, not modified
\* when the remote revision is the saved one, not found, or a transport error
DocGet(etag) ==
    {[err |-> "nil", etag |-> e] : e \in Etags \ {etag}}
    \cup (IF etag # "" THEN {[err |-> "notmodified", etag |-> ""]} ELSE {})
    \cup {[err |-> "notfound", etag |-> ""], [err |-> "error", etag |-> ""]}

\* faulty variant: the default case touches instead of only returning the error
crawlOpTouchOnError(err) ==
    IF err = "nil" THEN "put"
    ELSE IF err = "notfound" THEN "delete"
    ELSE "touch"

\* the switch on err at the end of crawlDoc
crawlOp(err) ==
    IF err = "nil" THEN "put"
    ELSE IF err = "notmodified" THEN "touch"
    ELSE IF err = "notfound" THEN "delete"
    ELSE "none"

crawlStore(d, c, op, t) ==
    IF op = "put" THEN putScript(d, c.path, c.new, DocumentTerms(c.path), c.new, c.updated)
    ELSE IF op = "touch" THEN touchScript(d, ProjectRootOf(c.path), c.path, c.old, t)
    ELSE IF op = "delete" THEN deleteScript(d, c.path)
    ELSE d

\* the pdoc a caller hands to crawlDoc: the stored package, or nil ("")
storedEtag(d, path) == IF Exists(d, path) THEN d.pkg[d.id[path]].etag ELSE ""

CrawlCheck(self) ==
    /\ cr[self].pc = "check"
    /\ LET why == crawlPrecheck(db, cr[self].path) IN
        cr' = [cr EXCEPT ![self] =
                IF why # ""
                THEN [@ EXCEPT !.pc = "apply", !.err = "notfound", !.why = why]
                ELSE [@ EXCEPT !.pc = "blocked"]]
    /\ UNCHANGED <<db, now, univ, blk, last, loop, rq, aux>>

CrawlBlocked(self) ==
    /\ cr[self].pc = "blocked"
    /\ cr' = [cr EXCEPT ![self] =
                IF isBlockedScript(db, cr[self].path)
                THEN [@ EXCEPT !.pc = "apply", !.err = "notfound", !.why = "blocked"]
                ELSE [@ EXCEPT !.pc = "fetch"]]
    /\ UNCHANGED <<db, now, univ, blk, last, loop, rq, aux>>

\* doc.Get answers with one of results; a package it builds has Updated = now
CrawlFetchFrom(self, results) ==
    /\ cr[self].pc = "fetch"
    /\ \E r \in results :
        cr' = [cr EXCEPT ![self] =
                [@ EXCEPT !.pc = "apply", !.err = r.err, !.new = r.etag,
                          !.updated = IF r.err = "nil" THEN now ELSE 0, !.called = TRUE]]
    /\ UNCHANGED <<db, now, univ, blk, last, loop, rq, aux>>

CrawlFetch(self) == CrawlFetchFrom(self, DocGet(cr[self].old))

CrawlApply(self) ==
    /\ cr[self].pc = "apply"
    /\ LET op == crawlOp(cr[self].err) IN
        /\ op = "put" => CanPut(db, cr[self].path)
        /\ db' = crawlStore(db, cr[self], op, now)
        /\ last' = IF op = "none" THEN last ELSE op
        /\ cr' = [cr EXCEPT ![self] = [@ EXCEPT !.pc = "done", !.op = op]]
    /\ UNCHANGED <<now, univ, blk, loop, rq, aux>>

\* a request starts a crawl of path: getDoc with the package it read from the
\* store, serveRefresh with nil
WebStart(path, withPdoc) ==
    /\ cr["web"].pc = "idle"
    /\ cr' = [cr EXCEPT !["web"] =
                [IdleCrawl EXCEPT !.pc = "check", !.path = path,
                                  !.old = IF withPdoc THEN storedEtag(db, path) ELSE ""]]
    /\ UNCHANGED <<db, now, univ, blk, last, loop, rq, aux>>

\* the task ends after its send on the channel
WebDone ==
    /\ cr["web"].pc = "done"
    /\ cr' = [cr EXCEPT !["web"] = IdleCrawl]
    /\ UNCHANGED <<db, now, univ, blk, last, loop, rq, aux>>

-----------------------------------------------------------------------------
(* getDoc and serveRefresh: a request starts crawlDoc in a task of its own *)
(* and waits for its result on the channel c or for the deadline           *)

GetTimeout == 8
FirstGetTimeout == 5

\* make(chan crawlResult, 1), make(chan error, 1)
ChanCap == 1

\* faulty variant: make(chan crawlResult), a channel without a buffer
chanUnbuffered(ch) == Len(ch) < 0

\* a send goes through without a receiver while the buffer has room
chanHasRoom(ch) == Len(ch) < ChanCap

MaxReq == 2

\* had: the etag of the package db.Get returned ("": nil); pdoc: the package
\* getDoc returns; err: the error the handler returns; status, body: the
\* response; ch: the channel c; n: the requests started so far
IdleReq ==
    [pc |-> "idle", kind |-> "", type |-> "", path |-> <<>>, had |-> "", pdoc |-> "",
     timeout |-> 0, waited |-> 0, timedOut |-> FALSE, err |-> "",
     status |-> 0, body |-> "", ch |-> <<>>, n |-> 0]

\* faulty variant: the deadline of a refresh of a known package, whatever pdoc is
getDocTimeoutAlways(pdoc) == GetTimeout

\* timeout := *getTimeout; if pdoc == nil { timeout = *firstGetTimeout }
getDocTimeout(pdoc) == IF pdoc = "" THEN FirstGetTimeout ELSE GetTimeout

\* what crawlDoc returns: (pdoc, nil) after a put, a touch or a delete (then
\* pdoc is nil), (nil, err) otherwise
crawlReturn(c) ==
    IF c.err = "nil" THEN [pdoc |-> c.new, err |-> "nil"]
    ELSE IF c.err = "notmodified" THEN [pdoc |-> c.old, err |-> "nil"]
    ELSE IF c.err = "notfound" THEN [pdoc |-> "", err |-> "nil"]
    ELSE [pdoc |-> "", err |-> "error"]

\* web.ErrorHandler: the status of the error a handler returned
errorStatus(err) ==
    IF err = "nil" THEN 0
    ELSE IF err = "web404" THEN 404
    ELSE 500

\* handleError: the response written for a status and an error
handleError(status, err) ==
    IF status = 0 THEN [status |-> 0, body |-> ""]
    ELSE IF status = 404 THEN [status |-> 404, body |-> "notfound"]
    ELSE [status |-> 500,
          body |-> IF err = "timeout" THEN "Timeout getting package files" ELSE "error"]

\* the end of getDoc: pdoc and err after the select
getDocResult(pdoc, err) ==
    IF err # "nil" /\ pdoc # "" THEN [pdoc |-> pdoc, err |-> "nil"]
    ELSE IF err = "timeout" THEN [pdoc |-> pdoc, err |-> "web404"]
    ELSE [pdoc |-> pdoc, err |-> err]

\* servePackage's response to what getDoc returned, for a path that has no
\* subdirectories
getDocResponse(res) ==
    IF res.err = "nil"
    THEN [status |-> IF res.pdoc = "" THEN 404 ELSE 200,
          body |-> IF res.pdoc = "" THEN "notfound" ELSE res.pdoc]
    ELSE handleError(errorStatus(res.err), res.err)

\* faulty variant: like getDoc, a timeout is dropped
serveRefreshDropsTimeout(err) ==
    IF err \in {"nil", "timeout"}
    THEN [status |-> 302, body |-> "redirect"]
    ELSE handleError(errorStatus(err), err)

\* the end of serveRefresh: the error is returned, or the redirect is sent
serveRefreshResponse(err) ==
    IF err # "nil"
    THEN handleError(errorStatus(err), err)
    ELSE [status |-> 302, body |-> "redirect"]

\* the request task after the select, with the package and the error it has
reqFinish(r, pdoc, err, timedOut) ==
    IF r.kind = "getDoc"
    THEN LET res == getDocResult(pdoc, err)
             out == getDocResponse(res)
         IN [r EXCEPT !.pc = "done", !.pdoc = res.pdoc, !.err = res.err,
                      !.timedOut = timedOut, !.status = out.status, !.body = out.body]
    ELSE LET out == serveRefreshResponse(err)
         IN [r EXCEPT !.pc = "done", !.err = err, !.timedOut = timedOut,
                      !.status = out.status, !.body = out.body]

\* time.Time{}: the lastCrawl db.Get returns without a package, before every
\* time of the clock
ZeroTime == -1

\* the hard-coded 24 * time.Hour of a human request, in units of the clock
Day == 1

RequestTypes == {"human", "robot", "query"}

\* getDoc of the store: the crawl score of the package of path
lastCrawlOf(d, path) == IF Exists(d, path) THEN d.crawl[d.id[path]] ELSE ZeroTime

\* projectRoot = projectRoot[:strings.LastIndex(projectRoot, "/")]
parentPath(path) ==
    LET cuts == {i \in 1..Len(path) : path[i] = "/"} IN
    IF cuts = {} THEN <<>>
    ELSE SubSeq(path, 1, (CHOOSE i \in cuts : \A j \in cuts : j <= i) - 1)

RECURSIVE subdirRoots(_, _)
\* the path and its ancestors, at most n of them
subdirRoots(path, n) ==
    IF n = 0 \/ path = <<>> THEN <<>>
    ELSE <<path>> \o subdirRoots(parentPath(path), n - 1)

\* the members of index:project:<root> (a set nobody wrote is empty)
projectIds(d, root) == IF root \in Roots THEN d.index[ProjectTerm(root)] ELSE {}

\* getSubdirsScript: the members of the first project set that has any
subdirsReply(d, roots) ==
    LET hits == {k \in 1..Len(roots) : projectIds(d, roots[k]) # {}} IN
    IF hits = {} THEN {}
    ELSE projectIds(d, roots[CHOOSE k \in hits : \A j \in hits : k <= j])

\* getSubdirs for a path that is no standard package: the packages of the
\* project below path (every package of this model has a name: kind "p")
getSubdirs(d, path, pdoc) ==
    LET ids == IF pdoc # ""
               THEN subdirsReply(d, <<ProjectRootOf(path)>>)
               ELSE subdirsReply(d, subdirRoots(path, 5))
    IN {d.pkg[i].path : i \in {j \in ids : d.pkg[j] # NoPkg /\
                                            HasPrefix(d.pkg[j].path, path \o <<"/">>)}}

\* faulty variant: a human request crawls a package that is exactly 24 h old
needsCrawlAtDay(requestType, lastCrawl, pkgs, t) ==
    IF requestType = "query" THEN lastCrawl = ZeroTime /\ pkgs = {}
    ELSE IF requestType = "human" THEN lastCrawl = ZeroTime \/ t - Day >= lastCrawl
    ELSE IF requestType = "robot" THEN lastCrawl = ZeroTime /\ pkgs # {}
    ELSE FALSE

\* the switch on requestType in getDoc; time.Now().Add(-24h).After(lastCrawl)
needsCrawl(requestType, lastCrawl, pkgs, t) ==
    IF requestType = "query" THEN lastCrawl = ZeroTime /\ pkgs = {}
    ELSE IF requestType = "human" THEN lastCrawl = ZeroTime \/ t - Day > lastCrawl
    ELSE IF requestType = "robot" THEN lastCrawl = ZeroTime /\ pkgs # {}
    ELSE FALSE

\* getDoc: db.Get(path), then a crawl in a task if the request needs one
ReqGetDoc(path, requestType) ==
    /\ rq.pc \in {"idle", "done"}
    /\ cr["web"].pc \in {"idle", "exit"}
    /\ rq.n < MaxReq
    /\ LET pdoc == storedEtag(db, path)
           pkgs == getSubdirs(db, path, pdoc)
           r == [IdleReq EXCEPT !.kind = "getDoc", !.type = requestType, !.path = path,
                                !.had = pdoc, !.pdoc = pdoc, !.n = rq.n + 1]
       IN IF needsCrawl(requestType, lastCrawlOf(db, path), pkgs, now)
          THEN /\ rq' = [r EXCEPT !.pc = "wait", !.timeout = getDocTimeout(pdoc)]
               /\ cr' = [cr EXCEPT !["web"] =
                            [IdleCrawl EXCEPT !.pc = "check", !.path = path, !.old = pdoc]]
          ELSE /\ rq' = reqFinish(r, pdoc, "nil", FALSE)
               /\ cr' = [cr EXCEPT !["web"] = IdleCrawl]
    /\ UNCHANGED <<db, now, univ, blk, last, loop, aux>>

\* serveRefresh: db.Get(path), then crawlDoc with a nil pdoc in a task
ReqRefresh(path) ==
    /\ rq.pc \in {"idle", "done"}
    /\ cr["web"].pc \in {"idle", "exit"}
    /\ rq.n < MaxReq
    /\ rq' = [IdleReq EXCEPT !.pc = "wait", !.kind = "refresh", !.path = path,
                             !.had = storedEtag(db, path), !.timeout = GetTimeout,
                             !.n = rq.n + 1]
    /\ cr' = [cr EXCEPT !["web"] = [IdleCrawl EXCEPT !.pc = "check", !.path = path]]
    /\ UNCHANGED <<db, now, univ, blk, last, loop, aux>>

\* a second passes while the request waits in the select
ReqWait ==
    /\ rq.pc = "wait"
    /\ rq.waited < rq.timeout
    /\ rq' = [rq EXCEPT !.waited = @ + 1]
    /\ UNCHANGED <<db, now, univ, blk, last, cr, loop, aux>>

\* case rr := <-c
ReqRecv ==
    /\ rq.pc = "wait"
    /\ rq.ch # <<>>
    /\ LET rr == Head(rq.ch)
           r == [rq EXCEPT !.ch = Tail(@)]
       IN rq' = reqFinish(r, IF rr.err = "nil" THEN rr.pdoc ELSE rq.pdoc, rr.err, FALSE)
    /\ UNCHANGED <<db, now, univ, blk, last, cr, loop, aux>>

\* case <-time.After(timeout)
ReqTimeout ==
    /\ rq.pc = "wait"
    /\ rq.waited = rq.timeout
    /\ rq' = reqFinish(rq, rq.pdoc, "timeout", TRUE)
    /\ UNCHANGED <<db, now, univ, blk, last, cr, loop, aux>>

\* c <- crawlResult{pdoc, err}: the send waits while the channel is full
WebSend ==
    /\ cr["web"].pc = "done"
    /\ chanHasRoom(rq.ch)
    /\ rq' = [rq EXCEPT !.ch = Append(@, crawlReturn(cr["web"]))]
    /\ cr' = [cr EXCEPT !["web"] = [@ EXCEPT !.pc = "exit"]]
    /\ UNCHANGED <<db, now, univ, blk, last, loop, aux>>

-----------------------------------------------------------------------------
(* crawl: the background loop *)

MaxAge == 1

\* db.Get("-"); with no package the loop sleeps and asks again
LoopGet ==
    /\ loop.pc = "get"
    /\ LET id == oldestId(db) IN
        /\ id # 0
        /\ loop' = [pc |-> "sleep", id |-> id, path |-> db.pkg[id].path,
                    etag |-> db.pkg[id].etag, lastCrawl |-> db.crawl[id],
                    prevId |-> loop.id, prevCrawl |-> loop.lastCrawl]
    /\ UNCHANGED <<db, now, univ, blk, last, cr, rq, aux>>

\* time.Sleep(maxAge - now.Sub(lastCrawl)) is over: crawlDoc is called
LoopWake ==
    /\ loop.pc = "sleep"
    /\ MaxAge - (now - loop.lastCrawl) <= 0
    /\ loop' = [loop EXCEPT !.pc = "crawl"]
    /\ cr' = [cr EXCEPT !["bg"] =
                [IdleCrawl EXCEPT !.pc = "check", !.path = loop.path, !.old = loop.etag]]
    /\ UNCHANGED <<db, now, univ, blk, last, rq, aux>>

\* crawlDoc has returned: on an error the package is touched
LoopAfter ==
    /\ loop.pc = "crawl"
    /\ cr["bg"].pc = "done"
    /\ IF cr["bg"].err = "error"
       THEN /\ db' = touchScript(db, ProjectRootOf(loop.path), loop.path, loop.etag, now)
            /\ last' = "touch"
       ELSE UNCHANGED <<db, last>>
    /\ loop' = [loop EXCEPT !.pc = "get"]
    /\ cr' = [cr EXCEPT !["bg"] = IdleCrawl]
    /\ UNCHANGED <<now, univ, blk, rq, aux>>

-----------------------------------------------------------------------------
(* Actions of the store's clients *)

DbPut(path, gob, terms, etag, updated) ==
    /\ CanPut(db, path)
    /\ db' = putScript(db, path, gob, terms, etag, updated)
    /\ last' = "put"
    /\ UNCHANGED <<now, univ, blk, crawlVars>>

DbTouch(root, path, etag) ==
    /\ db' = touchScript(db, root, path, etag, now)
    /\ last' = "touch"
    /\ UNCHANGED <<now, univ, blk, crawlVars>>

DbDelete(path) ==
    /\ db' = deleteScript(db, path)
    /\ last' = "delete"
    /\ UNCHANGED <<now, univ, blk, crawlVars>>

BlockSadd(root) ==
    /\ blk.pc = "idle"
    /\ db' = [db EXCEPT !.block = @ \cup {root}]
    /\ blk' = [blk EXCEPT !.pc = "keys", !.root = root]
    /\ last' = ""
    /\ UNCHANGED <<now, univ, crawlVars>>

BlockKeys ==
    /\ blk.pc = "keys"
    /\ LET keys == blockKeys(db, blk.root) IN
        blk' = IF keys = {}
               THEN IdleBlk
               ELSE [blk EXCEPT !.pc = "del", !.keys = keys]
    /\ UNCHANGED <<db, now, univ, last, crawlVars>>

BlockDelete ==
    /\ blk.pc = "del"
    /\ \E path \in blk.keys :
        /\ db' = IF blockMatches(path, blk.root) THEN deleteScript(db, path) ELSE db
        /\ blk' = IF blk.keys = {path}
                  THEN IdleBlk
                  ELSE [blk EXCEPT !.keys = @ \ {path}]
        /\ last' = IF blockMatches(path, blk.root) THEN "delete" ELSE last
    /\ UNCHANGED <<now, univ, crawlVars>>

TickTo(max) ==
    /\ now < max
    /\ now' = now + 1
    /\ UNCHANGED <<db, univ, blk, last, crawlVars>>

Tick == TickTo(MaxTime)

-----------------------------------------------------------------------------
(* Package index: terms, posting lists, Put, Remove, Query *)

termSize == 16

Str(prefix) ==
    IF prefix = "project:" THEN <<"p", "r", "o", "j", "e", "c", "t", ":">>
    ELSE <<"i", "m", "p", "o", "r", "t", ":">>

\* strings.ToLower, on the letters of this model
lowerChar(c) == IF c = "X" THEN "x" ELSE c

toLower(s) == [i \in 1..Len(s) |-> lowerChar(s[i])]

\* the lowered string, zero padded, or its salted md5 when it is longer than
\* a digest (the digest is kept as the string it was made of)
makeTerm(s) == [md5 |-> Len(s) > termSize, s |-> toLower(s)]

\* path.Split(importPath): the part after the final slash
splitName(path) ==
    LET cuts == {i \in 1..Len(path) : path[i] = "/"} IN
    IF cuts = {} THEN path
    ELSE Suffix(path, CHOOSE i \in cuts : \A j \in cuts : j <= i)

\* addPackageTerms: the terms a package is indexed under
packageTerms(dpkg) ==
    IF dpkg.Name = <<>> THEN {}
    ELSE LET project == {makeTerm(Str("project:") \o dpkg.ProjectRoot)}
             i == Index(dpkg.Doc, <<".">>)
             skip == IF dpkg.IsCmd
                     THEN dpkg.Synopsis = <<>> \/ i <= Len(dpkg.Doc) - 1
                     ELSE ~dpkg.Exports
         IN IF skip THEN project
            ELSE project
                 \cup {makeTerm(Str("import:") \o imp) : imp \in Range(dpkg.Imports)}
                 \cup {makeTerm(dpkg.Name), makeTerm(splitName(dpkg.ImportPath))}

\* postingList.add
plAdd(pl, id) ==
    IF Len(pl) = 0 \/ id > pl[Len(pl)] THEN Append(pl, id)
    ELSE LET i == CHOOSE k \in 1..Len(pl) : pl[k] >= id /\ \A j \in 1..(k - 1) : pl[j] < id IN
         IF pl[i] = id THEN pl
         ELSE SubSeq(pl, 1, i - 1) \o <<id>> \o SubSeq(pl, i, Len(pl))

\* postingList.remove
plRemove(pl, id) ==
    LET at == {k \in 1..Len(pl) : pl[k] >= id} IN
    IF at = {} THEN pl
    ELSE LET i == CHOOSE k \in at : \A j \in at : k <= j IN
         IF pl[i] # id THEN pl
         ELSE SubSeq(pl, 1, i - 1) \o SubSeq(pl, i + 1, Len(pl))

RECURSIVE intersectLoop(_, _, _, _, _)
\* the loop of postingList.intersect, i and j counted from 1
intersectLoop(pl, other, i, j, dst) ==
    IF i > Len(pl) \/ j > Len(other) THEN dst
    ELSE IF pl[i] = other[j] THEN intersectLoop(pl, other, i + 1, j + 1, Append(dst, pl[i]))
    ELSE IF pl[i] > other[j] THEN intersectLoop(pl, other, i, j + 1, dst)
    ELSE intersectLoop(pl, other, i + 1, j, dst)

\* postingList.intersect
intersect(pl, dst, other) ==
    IF Len(pl) = 0 \/ Len(other) = 0 THEN dst
    ELSE intersectLoop(pl, other, 1, 1, dst)

MaxPkgs == 3

PAC == <<"a", "/", "c">>
PAD == <<"a", "/", "d">>

\* a doc.Package, as far as the index reads it; Exports: it has a constant,
\* variable, function or type
DocPkg(path, name, isCmd, synopsis, text, imports, exports) ==
    [ImportPath |-> path, Name |-> name, ProjectRoot |-> PA, IsCmd |-> isCmd,
     Synopsis |-> synopsis, Doc |-> text, Imports |-> imports, Exports |-> exports]

\* a package x, the same without exports, a second package X that imports
\* the first, a directory, and commands with and without synopsis and doc
DocPkgs ==
    {DocPkg(PAB, <<"x">>, FALSE, <<"s">>, <<"s", ".">>, <<>>, TRUE),
     DocPkg(PAB, <<"x">>, FALSE, <<"s">>, <<"s", ".">>, <<>>, FALSE),
     DocPkg(PAC, <<"X">>, FALSE, <<>>, <<>>, <<PAB>>, TRUE),
     DocPkg(PAC, <<>>, FALSE, <<>>, <<>>, <<>>, FALSE),
     DocPkg(PAD, <<"m">>, TRUE, <<"s">>, <<"s", ".", "t", ".">>, <<PAB>>, FALSE),
     DocPkg(PAD, <<"m">>, TRUE, <<>>, <<"s", ".", "t", ".">>, <<PAB>>, FALSE),
     DocPkg(PAD, <<"m">>, TRUE, <<"s">>, <<>>, <<PAB>>, FALSE)}

IdxPaths == {d.ImportPath : d \in DocPkgs}

\* the fields of the queries of this model
QueryFields ==
    {<<"x">>, <<"X">>, <<"b">>, <<"c">>, <<"d">>, <<"m">>,
     Str("project:") \o PA, Str("import:") \o PAB}

IdxTerms == {makeTerm(f) : f \in QueryFields}

\* pkgs[id] == nil
NilPkg == [ImportPath |-> <<>>]

\* The slice idx.pkgs is [len, at]: its length and its elements by index
\* (from 0).  An index below len without an entry in at holds the directory
\* BulkPkg(index); only the Index of SpecWrap starts with such elements.

DigitChars == <<"0", "1", "2", "3", "4", "5", "6", "7", "8", "9">>

RECURSIVE itoa(_)
\* the decimal digits of k >= 0
itoa(k) == IF k < 10 THEN <<DigitChars[k + 1]>> ELSE Append(itoa(k \div 10), DigitChars[(k % 10) + 1])

BulkPath(k) == <<"d", "/">> \o itoa(k)

\* a directory without Go files
BulkPkg(k) == DocPkg(BulkPath(k), <<>>, FALSE, <<>>, <<>>, <<>>, FALSE)

\* index.New(); a term without an entry in rindex has the nil posting list
\* and a path without an entry in ids has no id (-1)
NewIndex ==
    [pkgs |-> [len |-> 0, at |-> <<>>],
     ids |-> [path \in IdxPaths |-> -1], rindex |-> [t \in IdxTerms |-> <<>>]]

\* len(idx.pkgs)
pkgsLen(x) == x.pkgs.len

\* idx.pkgs[id], ids counted from 0
pkgAt(x, id) == IF id \in DOMAIN x.pkgs.at THEN x.pkgs.at[id] ELSE BulkPkg(id)

\* idx.pkgs[id] = pkg
pkgsSet(x, id, pkg) ==
    [len |-> x.pkgs.len,
     at |-> [i \in DOMAIN x.pkgs.at \cup {id} |-> IF i = id THEN pkg ELSE x.pkgs.at[i]]]

\* append(idx.pkgs, pkg)
pkgsAppend(x, pkg) == [pkgsSet(x, x.pkgs.len, pkg) EXCEPT !.len = x.pkgs.len + 1]

\* Index.Put: the mask of a term is 1 for a term of the new package, 2 for a
\* term of the replaced one, 3 for a term of both
indexPut(x, dpkg) ==
    LET known == x.ids[dpkg.ImportPath] # -1
        id == IF known THEN x.ids[dpkg.ImportPath] ELSE pkgsLen(x) % 65536
        old == IF known /\ pkgAt(x, id) # NilPkg THEN packageTerms(pkgAt(x, id)) ELSE {}
        mask(t) == (IF t \in packageTerms(dpkg) THEN 1 ELSE 0) + (IF t \in old THEN 2 ELSE 0)
    IN [pkgs |-> IF known THEN pkgsSet(x, id, dpkg) ELSE pkgsAppend(x, dpkg),
        ids |-> [x.ids EXCEPT ![dpkg.ImportPath] = id],
        rindex |-> [t \in IdxTerms |->
                        IF mask(t) = 1 THEN plAdd(x.rindex[t], id)
                        ELSE IF mask(t) = 2 THEN plRemove(x.rindex[t], id)
                        ELSE x.rindex[t]]]

\* Index.Remove
indexRemove(x, path) ==
    LET id == x.ids[path] IN
    IF id = -1 \/ pkgAt(x, id) = NilPkg THEN x
    ELSE [x EXCEPT !.pkgs = pkgsSet(x, id, NilPkg),
                   !.rindex = [t \in IdxTerms |->
                                  IF t \in packageTerms(pkgAt(x, id))
                                  THEN plRemove(x.rindex[t], id) ELSE x.rindex[t]]]

\* Index.results: the import paths of the postings whose package is not nil
results(x, pl) ==
    LET kept == SelectSeq(pl, LAMBDA id : pkgAt(x, id) # NilPkg) IN
    [k \in 1..Len(kept) |-> pkgAt(x, kept[k]).ImportPath]

RECURSIVE queryLoop(_, _, _, _)
\* for i := 2; i < len(fields); i++ { pl = pl.intersect(pl[:0], rindex[makeTerm(fields[1])]) }
queryLoop(x, fields, i, pl) ==
    IF i >= Len(fields) THEN pl
    ELSE queryLoop(x, fields, i + 1, intersect(pl, <<>>, x.rindex[makeTerm(fields[1 + 1])]))

\* Index.Query for a q that strings.Fields splits into fields (q is not "all:")
indexQuery(x, fields) ==
    LET pl == IF Len(fields) = 0 THEN <<>>
              ELSE IF Len(fields) = 1 THEN x.rindex[makeTerm(fields[1])]
              ELSE queryLoop(x, fields, 2,
                             intersect(x.rindex[makeTerm(fields[1])], <<>>,
                                       x.rindex[makeTerm(fields[2])]))
    IN results(x, pl)

IndexPut(dpkg) ==
    /\ idx.ids[dpkg.ImportPath] # -1 \/ pkgsLen(idx) < MaxPkgs
    /\ idx' = indexPut(idx, dpkg)
    /\ call' = [fn |-> "Put", dpkg |-> dpkg]
    /\ UNCHANGED <<db, now, univ, blk, last, cr, loop, rq, qy>>

IndexRemove(path) ==
    /\ idx' = indexRemove(idx, path)
    /\ call' = [fn |-> "Remove", path |-> path]
    /\ UNCHANGED <<db, now, univ, blk, last, cr, loop, rq, qy>>

IndexQuery(fields) ==
    /\ call' = [fn |-> "Query", fields |-> fields, res |-> indexQuery(idx, fields)]
    /\ UNCHANGED <<db, now, univ, blk, last, cr, loop, rq, qy, idx>>

-----------------------------------------------------------------------------
(* The store under arbitrary Put / TouchLastCrawl / Delete / Block calls *)

StoreInit ==
    /\ db = EmptyDb
    /\ now = 0
    /\ univ = {PA, PAB}
    /\ blk = IdleBlk
    /\ last = ""
    /\ cr = [self \in Procs |-> IdleCrawl]
    /\ loop = IdleLoop
    /\ rq = IdleReq
    /\ qy = IdleQuery
    /\ call = NoCall
    /\ idx = NewIndex

StorePut == \E p \in univ, ts \in TermStrings, e \in Etags, u \in 0..now : DbPut(p, e, ts, e, u)

StoreTouch == \E r \in Roots \cap univ, p \in univ, e \in Etags : DbTouch(r, p, e)

StoreDelete == \E p \in univ : DbDelete(p)

StoreBlock == \E r \in Roots \cap univ : BlockSadd(r)

StoreNext ==
    \/ StorePut
    \/ StoreTouch
    \/ StoreDelete
    \/ StoreBlock
    \/ BlockKeys
    \/ BlockDelete
    \/ Tick

SpecStore == StoreInit /\ [][StoreNext]_vars

-----------------------------------------------------------------------------
(* Request-driven crawls racing with Block *)

CrawlInit ==
    /\ db = EmptyDb
    /\ now = 0
    /\ univ = {PAB, PMirror, PGU, PNest}
    /\ blk = IdleBlk
    /\ last = ""
    /\ cr = [self \in Procs |-> IdleCrawl]
    /\ loop = IdleLoop
    /\ rq = IdleReq
    /\ qy = IdleQuery
    /\ call = NoCall
    /\ idx = NewIndex

CrawlStart == \E p \in univ, w \in BOOLEAN : WebStart(p, w)

CrawlBlock == BlockSadd(PA)

CrawlNext ==
    \/ CrawlStart
    \/ CrawlCheck("web")
    \/ CrawlBlocked("web")
    \/ CrawlFetch("web")
    \/ CrawlApply("web")
    \/ WebDone
    \/ CrawlBlock
    \/ BlockKeys
    \/ BlockDelete
    \/ Tick

SpecCrawl == CrawlInit /\ [][CrawlNext]_vars

-----------------------------------------------------------------------------
(* The background crawl loop beside request-driven crawls *)

LoopInit ==
    /\ db = EmptyDb
    /\ now = 0
    /\ univ = {PA, PAB}
    /\ blk = IdleBlk
    /\ last = ""
    /\ cr = [self \in Procs |-> IdleCrawl]
    /\ loop = IdleLoop
    /\ rq = IdleReq
    /\ qy = IdleQuery
    /\ call = NoCall
    /\ idx = NewIndex

LoopStart == \E p \in univ : WebStart(p, TRUE)

LoopNext ==
    \/ LoopStart
    \/ \E self \in Procs : CrawlCheck(self)
    \/ \E self \in Procs : CrawlBlocked(self)
    \/ \E self \in Procs : CrawlFetch(self)
    \/ \E self \in Procs : CrawlApply(self)
    \/ WebDone
    \/ LoopGet
    \/ LoopWake
    \/ LoopAfter
    \/ Tick

SpecLoop == LoopInit /\ [][LoopNext]_vars

-----------------------------------------------------------------------------
(* The background crawl loop alone, over an unbounded time, with a package *)
(* whose fetch always fails.  Times are kept relative to now: a unit of    *)
(* time passing lowers every stored time by one and leaves now as it is,   *)
(* which changes no comparison and no difference the code computes.  The   *)
(* only wait is the loop's sleep, so time passes only while it sleeps.     *)

Poison == PA

PoisonInit ==
    /\ db = EmptyDb
    /\ now = MaxAge
    /\ univ = {PA, PAB}
    /\ blk = IdleBlk
    /\ last = ""
    /\ cr = [self \in Procs |-> IdleCrawl]
    /\ loop = IdleLoop
    /\ rq = IdleReq
    /\ qy = IdleQuery
    /\ call = NoCall
    /\ idx = NewIndex

\* a first fetch of a path stores its package
PoisonPut ==
    \E p \in univ, e \in Etags :
        /\ ~Exists(db, p)
        /\ DbPut(p, e, DocumentTerms(p), e, now)

PoisonFetch ==
    CrawlFetchFrom("bg", IF cr["bg"].path = Poison
                         THEN {[err |-> "error", etag |-> ""]}
                         ELSE DocGet(cr["bg"].old))

PoisonElapse ==
    /\ loop.pc = "sleep"
    /\ MaxAge - (now - loop.lastCrawl) > 0
    /\ db' = [db EXCEPT !.crawl = [i \in Ids |-> IF @[i] = NoScore THEN NoScore ELSE @[i] - 1]]
    /\ loop' = [loop EXCEPT !.lastCrawl = @ - 1, !.prevCrawl = @ - 1]
    /\ UNCHANGED <<now, univ, blk, last, cr, rq, aux>>

PoisonLoop ==
    \/ LoopGet
    \/ PoisonElapse
    \/ LoopWake
    \/ CrawlCheck("bg")
    \/ CrawlBlocked("bg")
    \/ PoisonFetch
    \/ CrawlApply("bg")
    \/ LoopAfter

PoisonNext == PoisonPut \/ PoisonLoop

\* the loop's goroutine keeps running and its sleeps end
SpecPoison == PoisonInit /\ [][PoisonNext]_vars /\ WF_vars(PoisonLoop)

-----------------------------------------------------------------------------
(* Requests that crawl: the request task, its crawl task and the deadline *)

ReqInit ==
    /\ db = EmptyDb
    /\ now = 0
    /\ univ = {PA, PAB}
    /\ blk = IdleBlk
    /\ last = ""
    /\ cr = [self \in Procs |-> IdleCrawl]
    /\ loop = IdleLoop
    /\ rq = IdleReq
    /\ qy = IdleQuery
    /\ call = NoCall
    /\ idx = NewIndex

MaxReqTime == 2

\* the clock of the requests
ReqTick == TickTo(MaxReqTime)

ReqStart ==
    \/ \E p \in univ, ty \in RequestTypes : ReqGetDoc(p, ty)
    \/ \E p \in univ : ReqRefresh(p)

\* the steps of the crawl task
TaskStep ==
    \/ CrawlCheck("web")
    \/ CrawlBlocked("web")
    \/ CrawlFetch("web")
    \/ CrawlApply("web")
    \/ WebSend

ReqNext ==
    \/ ReqStart
    \/ ReqWait
    \/ ReqRecv
    \/ ReqTimeout
    \/ TaskStep
    \/ ReqTick

\* a goroutine that can take a step takes it
SpecReq == ReqInit /\ [][ReqNext]_vars /\ WF_vars(TaskStep)

-----------------------------------------------------------------------------
(* Database.Query: INCR maxQueryId, then SINTERSTORE, SORT and DEL sent as  *)
(* three commands in one pipeline, with no MULTI and no script around them *)

RECURSIVE sinter(_, _)
\* SINTERSTORE tmp index:t1 index:t2 ...
sinter(d, terms) ==
    IF Len(terms) = 1 THEN d.index[terms[1]]
    ELSE d.index[terms[1]] \cap sinter(d, Tail(terms))

\* SORT tmp ... GET pkg:*->path: the path of each member, the empty string
\* for a member whose hash is gone; packages() keeps every entry whose kind
\* is not "d"
sortPaths(d, ids) == {d.pkg[i].path : i \in ids}

\* the term lists the queries of this model parse to
QueryTerms == {<<WordTerm>>, <<ProjectTerm(PA), WordTerm>>}

QuerySinterstore(terms) ==
    /\ qy.pc \in {"idle", "done"}
    /\ qy' = [pc |-> "sort", terms |-> terms, tmp |-> sinter(db, terms), result |-> {}]
    /\ UNCHANGED <<db, now, univ, blk, last, cr, loop, rq, call, idx>>

QuerySort ==
    /\ qy.pc = "sort"
    /\ qy' = [qy EXCEPT !.pc = "del", !.result = sortPaths(db, qy.tmp)]
    /\ UNCHANGED <<db, now, univ, blk, last, cr, loop, rq, call, idx>>

QueryDel ==
    /\ qy.pc = "del"
    /\ qy' = [qy EXCEPT !.pc = "done", !.tmp = {}]
    /\ UNCHANGED <<db, now, univ, blk, last, cr, loop, rq, call, idx>>

QueryInit ==
    /\ db = EmptyDb
    /\ now = 0
    /\ univ = {PA, PAB}
    /\ blk = IdleBlk
    /\ last = ""
    /\ cr = [self \in Procs |-> IdleCrawl]
    /\ loop = IdleLoop
    /\ rq = IdleReq
    /\ qy = IdleQuery
    /\ call = NoCall
    /\ idx = NewIndex

QueryPut == \E p \in univ, e \in Etags : DbPut(p, e, DocumentTerms(p), e, now)

QueryStart == \E terms \in QueryTerms : QuerySinterstore(terms)

QueryNext ==
    \/ QueryPut
    \/ StoreDelete
    \/ QueryStart
    \/ QuerySort
    \/ QueryDel

SpecQuery == QueryInit /\ [][QueryNext]_vars

-----------------------------------------------------------------------------
(* The in-memory index under Put, Remove and Query *)

\* the queries, split into fields: one, two and three fields
FieldLists ==
    {<<<<"x">>>>, <<<<"X">>>>, <<<<"d">>>>,
     <<<<"x">>, <<"b">>>>, <<Str("project:") \o PA, <<"x">>>>, <<Str("import:") \o PAB, <<"m">>>>,
     <<Str("project:") \o PA, <<"x">>, <<"b">>>>, <<<<"x">>, Str("project:") \o PA, <<"c">>>>}

IndexInit ==
    /\ db = EmptyDb
    /\ now = 0
    /\ univ = {}
    /\ blk = IdleBlk
    /\ last = ""
    /\ cr = [self \in Procs |-> IdleCrawl]
    /\ loop = IdleLoop
    /\ rq = IdleReq
    /\ qy = IdleQuery
    /\ call = NoCall
    /\ idx = NewIndex

IndexNext ==
    \/ \E dpkg \in DocPkgs : IndexPut(dpkg)
    \/ \E path \in IdxPaths : IndexRemove(path)
    \/ \E fields \in FieldLists : IndexQuery(fields)

SpecIndex == IndexInit /\ [][IndexNext]_vars

-----------------------------------------------------------------------------
(* Database.IsBlocked against a blocklist built by Block *)

PABC == PAB \o <<"/", "c">>
PABc == PAB \o <<"c">>
PB == <<"b">>

\* the roots handed to Block and the paths handed to IsBlocked: import paths,
\* whose segments are never empty
BlockRoots == {PA, PAB, PAb, PB}
BlockedPaths == {PA, PAB, PAb, PABC, PABc, PB}

IsBlocked(path) ==
    /\ call' = [fn |-> "IsBlocked", path |-> path, res |-> isBlockedScript(db, path)]
    /\ UNCHANGED <<db, now, univ, blk, last, cr, loop, rq, qy, idx>>

BlockedInit ==
    /\ db = EmptyDb
    /\ now = 0
    /\ univ = {PA, PAB}
    /\ blk = IdleBlk
    /\ last = ""
    /\ cr = [self \in Procs |-> IdleCrawl]
    /\ loop = IdleLoop
    /\ rq = IdleReq
    /\ qy = IdleQuery
    /\ call = NoCall
    /\ idx = NewIndex

BlockedPut == \E p \in univ : DbPut(p, "e1", <<WordTerm, WordTerm>>, "e1", now)

BlockedBlock == \E r \in BlockRoots : BlockSadd(r)

BlockedCall == \E p \in BlockedPaths : IsBlocked(p)

BlockedNext ==
    \/ BlockedPut
    \/ BlockedBlock
    \/ BlockKeys
    \/ BlockDelete
    \/ BlockedCall

SpecBlocked == BlockedInit /\ [][BlockedNext]_vars

-----------------------------------------------------------------------------
(* doc.Get: the version prefix of etags, the dispatch over the services and *)
(* the answers of the fetchers for a remote in a given state               *)

PackageVersion == <<"6">>

versionPrefix == PackageVersion \o <<"-">>

\* faulty variant: an etag without the prefix is handed on as it is
stripVersionKeep(etag) ==
    IF HasPrefix(etag, versionPrefix)
    THEN SubSeq(etag, Len(versionPrefix) + 1, Len(etag))
    ELSE etag

stripVersion(etag) ==
    IF HasPrefix(etag, versionPrefix)
    THEN SubSeq(etag, Len(versionPrefix) + 1, Len(etag))
    ELSE <<>>

\* import paths: standard, github.com/u/r, github.com/u.git, a Google Code
\* project, a repository named with its VCS, a path known to no service, and
\* a path the validator rejects
PFmt == <<"f", "m", "t">>
PGUR == PGU \o <<"/", "r">>
PGUgit == PGU \o <<".", "g", "i", "t">>
PGoogle == <<"c", "o", "d", "e", ".", "g", "o", "o", "g", "l", "e", ".", "c", "o", "m", "/", "p", "/", "x">>
PGit == <<"e", ".", "o", "r", "g", "/", "r", ".", "g", "i", "t">>
PMeta == <<"e", ".", "o", "r", "g", "/", "x">>
PBad == <<"f", "o", "o", "b", "a", "r">>

GetPaths == {PFmt, PGUR, PGUgit, PGoogle, PGit, PMeta, PBad}

ValidRemotePaths == {PGUR, PGUgit, PGoogle, PGit, PMeta}

IsValidRemotePath(importPath) == importPath \in ValidRemotePaths

\* revisions a remote reports; the second begins like a version prefix
R1 == <<"r", "1">>
R6 == <<"6", "-", "r">>
Revs == {R1, R6}
NoRev == <<>>

HG == <<"h", "g">>
GIT == <<"g", "i", "t">>
SVN == <<"s", "v", "n">>

\* what fetchMeta finds: a transport error, no usable <meta>, or a project
\* whose repository plus directory is the given path under the given VCS
Metas ==
    {[err |-> "error", repo |-> <<>>, vcs |-> <<>>],
     [err |-> "NotFound", repo |-> <<>>, vcs |-> <<>>],
     [err |-> "nil", repo |-> PGUR, vcs |-> GIT],
     [err |-> "nil", repo |-> PGUgit, vcs |-> GIT],
     [err |-> "nil", repo |-> PMeta, vcs |-> GIT],
     [err |-> "nil", repo |-> PMeta, vcs |-> HG]}

\* the remote side at one call: the revision it reports (NoRev when the
\* listing cannot be fetched or holds no revision) and what fetchMeta finds
Remotes == [rev : Revs \cup {NoRev}, meta : Metas]

NilDoc == [nil |-> TRUE, Etag |-> <<>>]

Doc(etag) == [nil |-> FALSE, Etag |-> etag]

Ret(pdoc, err, route) == [pdoc |-> pdoc, err |-> err, route |-> route]

\* faulty variant: any saved etag counts as the current revision
notModifiedAnySaved(etag, savedEtag) == savedEtag # <<>>

\* etag == savedEtag / commit == savedEtag
notModified(etag, savedEtag) == etag = savedEtag

fetchAt(etag, savedEtag, name) ==
    IF notModified(etag, savedEtag)
    THEN Ret(NilDoc, "ErrNotModified", <<name>>)
    ELSE Ret(Doc(etag), "nil", <<name>>)

getStandardDoc(remote, savedEtag) ==
    IF remote.rev = NoRev THEN Ret(NilDoc, "error", <<"getStandardDoc">>)
    ELSE fetchAt(remote.rev, savedEtag, "getStandardDoc")

\* the VCS named by the saved etag, or else the one scraped from the project
\* page (hg for the project of this model)
googleVcs(savedEtag) ==
    IF HasPrefix(savedEtag, GIT \o <<"-">>) THEN GIT
    ELSE IF HasPrefix(savedEtag, SVN \o <<"-">>) THEN SVN
    ELSE HG

getGoogleDoc(remote, savedEtag) ==
    IF remote.rev = NoRev THEN Ret(NilDoc, "error", <<"getGoogleDoc">>)
    ELSE fetchAt(googleVcs(savedEtag) \o <<"-">> \o remote.rev, savedEtag, "getGoogleDoc")

\* getGithubDoc, getBitbucketDoc, getLaunchpadDoc
getServiceDoc(name, remote, savedEtag) ==
    IF remote.rev = NoRev THEN Ret(NilDoc, "error", <<name>>)
    ELSE fetchAt(remote.rev, savedEtag, name)

downloadGit(remote, savedEtag) ==
    IF remote.rev = NoRev THEN [etag |-> <<>>, err |-> "errNoMatch"]
    ELSE IF notModified(remote.rev, savedEtag) THEN [etag |-> <<>>, err |-> "ErrNotModified"]
    ELSE [etag |-> remote.rev, err |-> "nil"]

\* getVCS after cmd.download has answered d
getVCSAfter(d) ==
    IF d.err = "errNoMatch" THEN Ret(NilDoc, "NotFound", <<"getVCS">>)
    ELSE IF d.err # "nil" THEN Ret(NilDoc, d.err, <<"getVCS">>)
    ELSE Ret(Doc(d.etag), "nil", <<"getVCS">>)

getVCS(vcs, remote, etagSaved) ==
    IF vcs # GIT THEN Ret(NilDoc, "NotFound", <<"getVCS">>)
    ELSE getVCSAfter(downloadGit(remote, etagSaved))

\* the result r, reached after the calls of route
after(route, r) == Ret(r.pdoc, r.err, route \o r.route)

\* pattern, getDoc, prefix; a pattern is the set of the model's paths it matches
services ==
    <<[pattern |-> {PGUR}, getDoc |-> "getGithubDoc", prefix |-> <<"g", "i", "t", "h", "u", "b", ".", "c", "o", "m", "/">>],
      [pattern |-> {PGoogle}, getDoc |-> "getGoogleDoc", prefix |-> <<"c", "o", "d", "e", ".", "g", "o", "o", "g", "l", "e", ".", "c", "o", "m", "/">>],
      [pattern |-> {}, getDoc |-> "getBitbucketDoc", prefix |-> <<"b", "i", "t", "b", "u", "c", "k", "e", "t", ".", "o", "r", "g", "/">>],
      [pattern |-> {}, getDoc |-> "getLaunchpadDoc", prefix |-> <<"l", "a", "u", "n", "c", "h", "p", "a", "d", ".", "n", "e", "t", "/">>],
      [pattern |-> {PGit, PGUgit}, getDoc |-> "getGeneralDoc", prefix |-> <<>>]>>

serviceGetDoc(name, remote, etag) ==
    IF name = "getGoogleDoc" THEN getGoogleDoc(remote, etag)
    ELSE IF name = "getGeneralDoc"
    THEN after(<<name>>, getVCS(GIT, remote, etag))
    ELSE getServiceDoc(name, remote, etag)

\* faulty variant: a pattern miss always goes on to the next service
missFallsThrough(prefix) == FALSE

\* if s.prefix != "" { return nil, NotFoundError{...} }
missIsNotFound(prefix) == prefix # <<>>

RECURSIVE getStaticFrom(_, _, _, _)
getStaticFrom(i, importPath, etag, remote) ==
    IF i > Len(services) THEN Ret(NilDoc, "errNoMatch", <<>>)
    ELSE LET s == services[i] IN
         IF ~HasPrefix(importPath, s.prefix) THEN getStaticFrom(i + 1, importPath, etag, remote)
         ELSE IF importPath \notin s.pattern
         THEN IF missIsNotFound(s.prefix)
              THEN Ret(NilDoc, "NotFound", <<>>)
              ELSE getStaticFrom(i + 1, importPath, etag, remote)
         ELSE serviceGetDoc(s.getDoc, remote, etag)

getStatic(importPath, etag, remote) ==
    after(<<"getStatic">>, getStaticFrom(1, importPath, etag, remote))

\* if err == errNoMatch { pdoc, err = getVCS(...) }
getDynamicAfter(st, vcs, etag, remote) ==
    IF st.err = "errNoMatch" THEN after(st.route, getVCS(vcs, remote, etag)) ELSE st

getDynamic(importPath, etag, remote) ==
    IF remote.meta.err # "nil" THEN Ret(NilDoc, remote.meta.err, <<"getDynamic">>)
    ELSE after(<<"getDynamic">>,
               getDynamicAfter(getStatic(remote.meta.repo, etag, remote),
                               remote.meta.vcs, etag, remote))

\* if err == errNoMatch { pdoc, err = getDynamic(...) }
getRemoteAfter(st, importPath, etag, remote) ==
    IF st.err = "errNoMatch" THEN after(st.route, getDynamic(importPath, etag, remote)) ELSE st

\* the end of Get: the sentinel becomes NotFoundError, the prefix is put
\* before the etag of a package; etag is what the fetchers were handed and
\* raw the etag the fetcher gave the package
getReturn(r, etag) ==
    [pdoc |-> IF r.pdoc.nil THEN r.pdoc ELSE Doc(versionPrefix \o r.pdoc.Etag),
     err |-> IF r.err = "errNoMatch" THEN "NotFound" ELSE r.err,
     etag |-> etag,
     raw |-> r.pdoc.Etag,
     route |-> r.route]

getSwitch(importPath, etag, remote) ==
    IF IsGoRepoPath(importPath) THEN getStandardDoc(remote, etag)
    ELSE IF IsValidRemotePath(importPath)
    THEN getRemoteAfter(getStatic(importPath, etag, remote), importPath, etag, remote)
    ELSE Ret(NilDoc, "errNoMatch", <<>>)

Get(importPath, etag, remote) ==
    getReturn(getSwitch(importPath, stripVersion(etag), remote), stripVersion(etag))

\* etags a caller has saved: none, of this version, of another version,
\* without a version, and the bare prefix
SavedEtags ==
    {<<>>, versionPrefix \o R1, versionPrefix \o R6, versionPrefix \o HG \o <<"-">> \o R1,
     <<"5", "-">> \o R1, R1, R6, versionPrefix}

DocGetCall(importPath, etag, remote) ==
    /\ call' = [fn |-> "Get", importPath |-> importPath, saved |-> etag, remote |-> remote,
                ret |-> Get(importPath, etag, remote)]
    /\ UNCHANGED <<db, now, univ, blk, last, cr, loop, rq, qy, idx>>

\* a fetch with the arguments and against the remote drawn at the start
DocGetSaved ==
    /\ call.fn = "args"
    /\ DocGetCall(call.importPath, call.saved, call.remote)

\* the caller hands back the etag of the package it was last given
DocGetAgain ==
    /\ call.fn = "Get"
    /\ ~call.ret.pdoc.nil
    /\ \E remote \in Remotes : DocGetCall(call.importPath, call.ret.pdoc.Etag, remote)

GetInit ==
    /\ db = EmptyDb
    /\ now = 0
    /\ univ = {}
    /\ blk = IdleBlk
    /\ last = ""
    /\ cr = [self \in Procs |-> IdleCrawl]
    /\ loop = IdleLoop
    /\ rq = IdleReq
    /\ qy = IdleQuery
    /\ call \in {[fn |-> "args", importPath |-> p, saved |-> e, remote |-> remote] :
                    p \in GetPaths, e \in SavedEtags, remote \in Remotes}
    /\ idx = NewIndex

GetNext ==
    \/ DocGetSaved
    \/ DocGetAgain

SpecGet == GetInit /\ [][GetNext]_vars

-----------------------------------------------------------------------------
(* Method signatures: hash of the canonical bytes of a method, with two    *)
(* flag bits in the first byte                                             *)

embeddedMask == 1
exportedMask == 2
allMask == 4

\* type MethodSignature [16]byte
SigSize == 16

\* canonical method declarations
CanonicalDecls == {"Foo()", "Error()string", "\"io\".Writer"}

\* md5 of the canonical bytes
md5Sum(p) ==
    IF p = "Foo()" THEN <<182, 83, 82, 247, 110, 195, 127, 89, 43, 92, 3, 134, 33, 29, 238, 60>>
    ELSE IF p = "Error()string" THEN <<221, 196, 196, 227, 167, 153, 203, 231, 191, 118, 92, 132, 123, 92, 78, 245>>
    ELSE <<28, 103, 94, 113, 116, 81, 34, 207, 182, 118, 18, 236, 93, 66, 42, 229>>

\* the array behind the slice b[:n] after h.Sum(b[:n]): Sum appends the
\* digest, in place when the capacity allows it and to a fresh array, which
\* leaves b as it was, when it does not
Sum(b, n, digest) ==
    IF n + Len(digest) <= Len(b)
    THEN [i \in 1..Len(b) |-> IF i > n /\ i <= n + Len(digest) THEN digest[i - n] ELSE b[i]]
    ELSE b

\* x &^ (mask - 1), mask a power of two
andNot(x, mask) == x - (x % mask)

\* x | bit, bit a power of two
or(x, bit) == IF (x \div bit) % 2 = 1 THEN x ELSE x + bit

hash(p, exported, embedded) ==
    LET zero == [i \in 1..SigSize |-> 0]
        sig == Sum(zero, Len(zero), md5Sum(p))
        b0 == andNot(sig[1], allMask)
        b1 == IF exported THEN or(b0, exportedMask) ELSE b0
        b2 == IF embedded THEN or(b1, embeddedMask) ELSE b1
    IN [sig EXCEPT ![1] = b2]

IsEmbeddedInterface(ms) == (ms[1] \div embeddedMask) % 2 # 0

IsExported(ms) == (ms[1] \div exportedMask) % 2 # 0

NoHash == [p |-> "", exported |-> FALSE, embedded |-> FALSE, sig |-> <<>>]

\* one call of hash; the call before it is kept beside it
HashCall(p, exported, embedded) ==
    /\ call' = [fn |-> "hash", p |-> p, exported |-> exported, embedded |-> embedded,
                sig |-> hash(p, exported, embedded),
                prev |-> IF call.fn = "hash"
                         THEN [p |-> call.p, exported |-> call.exported,
                               embedded |-> call.embedded, sig |-> call.sig]
                         ELSE NoHash]
    /\ UNCHANGED <<db, now, univ, blk, last, cr, loop, rq, qy, idx>>

HashInit ==
    /\ db = EmptyDb
    /\ now = 0
    /\ univ = {}
    /\ blk = IdleBlk
    /\ last = ""
    /\ cr = [self \in Procs |-> IdleCrawl]
    /\ loop = IdleLoop
    /\ rq = IdleReq
    /\ qy = IdleQuery
    /\ call = NoCall
    /\ idx = NewIndex

HashNext == \E p \in CanonicalDecls, exported \in BOOLEAN, embedded \in BOOLEAN : HashCall(p, exported, embedded)

SpecHash == HashInit /\ [][HashNext]_vars

-----------------------------------------------------------------------------
(* Database.Query after the pipeline: the packages of the SORT reply, and  *)
(* the move of an exact match on a standard package to the top             *)

HasSuffix(s, suffix) ==
    Len(suffix) <= Len(s) /\ SubSeq(s, Len(s) - Len(suffix) + 1, Len(s)) = suffix

\* stored packages: two packages of the standard tree, a command of the
\* standard tree, and two packages of a project; Name is the package clause
PJ == <<"j">>
PEJ == <<"e", "/", "j">>
PCJ == <<"c", "/", "j">>
PXJ == <<"x", ".", "y", "/", "j">>
PXK == <<"x", ".", "y", "/", "k">>

StandardPackages == {PJ, PEJ, PCJ}

isStandardPackage(path) == path \in StandardPackages

\* 3 for a standard package, 1 without synopsis, 2 otherwise (0 with
\* extractor errors, which no package here has)
documentRank(path, synopsis) ==
    IF isStandardPackage(path) THEN 3 ELSE IF synopsis = "" THEN 1 ELSE 2

Pkg(path, name, synopsis) ==
    [Path |-> path, Name |-> name, Synopsis |-> synopsis, rank |-> documentRank(path, synopsis)]

QueryPkgs ==
    {Pkg(PJ, <<"j">>, "s"), Pkg(PEJ, <<"j">>, "s"), Pkg(PCJ, <<"m">>, "s"),
     Pkg(PXJ, <<"j">>, "s"), Pkg(PXK, <<"j">>, "")}

Queries == {<<"j">>, <<"k">>}

\* the search terms of a package: its name and the last element of its path
hasTerm(pkg, q) == pkg.Name = q \/ splitName(pkg.Path) = q

\* the replies SORT ... DESC BY pkg:*->rank can give for q: the packages of
\* some stored set that have the term, by descending rank, ties in any order
SortReplies(q) ==
    {s \in UNION {[1..n -> {pkg \in QueryPkgs : hasTerm(pkg, q)}] : n \in 0..Cardinality(QueryPkgs)} :
        /\ \A i, j \in 1..Len(s) : i < j => (s[i] # s[j] /\ s[i].rank >= s[j].rank)}

swap(pkgs, i, j) == [pkgs EXCEPT ![i] = pkgs[j], ![j] = pkgs[i]]

RECURSIVE moveExactMatch(_, _, _)
\* for i, pkg := range pkgs { ... }
moveExactMatch(pkgs, q, i) ==
    IF i > Len(pkgs) THEN pkgs
    ELSE IF ~isStandardPackage(pkgs[i].Path) THEN pkgs
    ELSE IF HasSuffix(pkgs[i].Path, q) THEN swap(pkgs, 1, i)
    ELSE moveExactMatch(pkgs, q, i + 1)

\* Query(q) on the reply the call has drawn
QueryReturn ==
    /\ call.fn = "reply"
    /\ call' = [fn |-> "Query", q |-> call.q, pkgs |-> call.pkgs,
                res |-> moveExactMatch(call.pkgs, call.q, 1)]
    /\ UNCHANGED <<db, now, univ, blk, last, cr, loop, rq, qy, idx>>

TopInit ==
    /\ db = EmptyDb
    /\ now = 0
    /\ univ = {}
    /\ blk = IdleBlk
    /\ last = ""
    /\ cr = [self \in Procs |-> IdleCrawl]
    /\ loop = IdleLoop
    /\ rq = IdleReq
    /\ qy = IdleQuery
    /\ call \in UNION {{[fn |-> "reply", q |-> q, pkgs |-> s] : s \in SortReplies(q)} : q \in Queries}
    /\ idx = NewIndex

TopNext == QueryReturn

SpecTop == TopInit /\ [][TopNext]_vars

-----------------------------------------------------------------------------
(* Crawl times under Put with any Updated time up to now (a crawl that     *)
(* ends late, or a reindex of stored documents), TouchLastCrawl and Delete *)

\* the encoded document, which carries pdoc.Updated
gobAt(updated) ==
    IF updated = 0 THEN "updated 0" ELSE IF updated = 1 THEN "updated 1"
    ELSE IF updated = 2 THEN "updated 2" ELSE "updated later"

TimeInit ==
    /\ db = EmptyDb
    /\ now = 0
    /\ univ = {PA, PAB}
    /\ blk = IdleBlk
    /\ last = ""
    /\ cr = [self \in Procs |-> IdleCrawl]
    /\ loop = IdleLoop
    /\ rq = IdleReq
    /\ qy = IdleQuery
    /\ call = NoCall
    /\ idx = NewIndex

TimePut ==
    \E p \in univ, e \in Etags, updated \in 0..now :
        DbPut(p, gobAt(updated), <<ProjectTerm(PA), WordTerm>>, e, updated)

TimeTouch == \E p \in univ, e \in Etags : DbTouch(PA, p, e)

TimeNext ==
    \/ TimePut
    \/ TimeTouch
    \/ StoreDelete
    \/ ReqTick

SpecTime == TimeInit /\ [][TimeNext]_vars

-----------------------------------------------------------------------------
(* Database.ImportGraph: a breadth-first walk of the stored import: terms,  *)
(* with the Redis pipeline as the queue.  call.out is the connection's      *)
(* write buffer (Send), call.wire the commands flushed and not yet run,     *)
(* call.replies the replies not yet received.  Indexes of nodes and edges   *)
(* count from 0 as in the code; nodes[k + 1] here is nodes[k] there.  The   *)
(* Synopsis copied into a node plays no part in the walk and is left out.   *)

ImportTerm(path) == <<"import:", path>>

GraphPaths == {PA, PAB, PAb}

\* terms strings of stored documents: import:<p> for each entry of Imports
GraphTermStrings ==
    {<<>>, <<ImportTerm(PA)>>, <<ImportTerm(PAB)>>,
     <<WordTerm, ImportTerm(PAB), ImportTerm(PAb)>>}

RECURSIVE importsOf(_)
importsOf(terms) ==
    IF terms = <<>> THEN <<>>
    ELSE IF Head(terms)[1] = "import:" THEN <<Head(terms)[2]>> \o importsOf(Tail(terms))
    ELSE importsOf(Tail(terms))

\* no ImportGraph call is running
IdleGraph ==
    [fn |-> "ImportGraph", pc |-> "idle", root |-> <<>>, imports |-> <<>>,
     nodes |-> <<>>, edges |-> <<>>, index |-> [p \in GraphPaths |-> -1], i |-> 0,
     out |-> <<>>, wire |-> <<>>, replies |-> <<>>, got |-> <<>>, sends |-> 0, recvs |-> 0]

\* the reply of importGraphScript: false, or HMGET pkg:<id> synopsis terms
importGraphScript(d, path) ==
    IF d.id[path] = 0 THEN [null |-> TRUE, terms |-> <<>>]
    ELSE [null |-> FALSE, terms |-> d.pkg[d.id[path]].terms]

\* a new node: index[path] = j, nodes = append(nodes, ...), Send
addNode(g, path) ==
    [g EXCEPT !.index[path] = Len(g.nodes),
              !.nodes = Append(@, path),
              !.out = Append(@, path),
              !.sends = @ + 1]

\* one round of the loop over pdoc.Imports
visitRoot(g, path) == [addNode(g, path) EXCEPT !.edges = Append(@, <<0, Len(g.nodes)>>)]

RECURSIVE importRoot(_, _, _)
importRoot(g, imports, k) ==
    IF k > Len(imports) THEN g ELSE importRoot(visitRoot(g, imports[k]), imports, k + 1)

\* one round of the loop over strings.Fields(terms)
visitTerm(g, i, term) ==
    IF term[1] # "import:" THEN g
    ELSE IF g.index[term[2]] # -1 THEN [g EXCEPT !.edges = Append(@, <<i, g.index[term[2]]>>)]
    ELSE [addNode(g, term[2]) EXCEPT !.edges = Append(@, <<i, Len(g.nodes)>>)]

RECURSIVE importTerms(_, _, _, _)
importTerms(g, i, terms, k) ==
    IF k > Len(terms) THEN g ELSE importTerms(visitTerm(g, i, terms[k]), i, terms, k + 1)

\* for i := 1; i < len(nodes); i++
loopPc(g) == [g EXCEPT !.pc = IF g.i < Len(g.nodes) THEN "flush" ELSE "done"]

\* nodes, edges and index of the root, then the loop over pdoc.Imports
importGraphStart(root, imports) ==
    loopPc(importRoot([IdleGraph EXCEPT !.root = root, !.imports = imports,
                                        !.nodes = <<root>>, !.index[root] = 0, !.i = 1],
                      imports, 1))

\* redis.ErrNil: continue; otherwise the loop over the terms of the reply
importGraphReceive(g, r) ==
    IF r.null THEN g ELSE importTerms(g, g.i, r.terms, 1)

\* the call with the document stored under root
GraphStart(root) ==
    /\ call.pc = "idle"
    /\ Exists(db, root)
    /\ call' = importGraphStart(root, importsOf(db.pkg[db.id[root]].terms))
    /\ UNCHANGED <<db, now, univ, blk, last, cr, loop, rq, qy, idx>>

\* c.Flush()
GraphFlush ==
    /\ call.pc = "flush"
    /\ call' = [call EXCEPT !.pc = "receive", !.wire = @ \o call.out, !.out = <<>>]
    /\ UNCHANGED <<db, now, univ, blk, last, cr, loop, rq, qy, idx>>

\* Redis runs the next script of the pipeline
GraphExec ==
    /\ call.pc \in {"flush", "receive"}
    /\ call.wire # <<>>
    /\ call' = [call EXCEPT !.wire = Tail(@),
                            !.replies = Append(@, importGraphScript(db, Head(call.wire)))]
    /\ UNCHANGED <<db, now, univ, blk, last, cr, loop, rq, qy, idx>>

\* c.Receive() and the body of the loop
GraphReceive ==
    /\ call.pc = "receive"
    /\ call.replies # <<>>
    /\ call' = loopPc([importGraphReceive(call, Head(call.replies))
                          EXCEPT !.replies = Tail(call.replies),
                                 !.got = Append(call.got, Head(call.replies)),
                                 !.recvs = call.recvs + 1,
                                 !.i = call.i + 1])
    /\ UNCHANGED <<db, now, univ, blk, last, cr, loop, rq, qy, idx>>

\* return nodes, edges, nil
GraphReturn ==
    /\ call.pc = "done"
    /\ call' = IdleGraph
    /\ UNCHANGED <<db, now, univ, blk, last, cr, loop, rq, qy, idx>>

\* Put and Delete of other clients, between the scripts of the walk
GraphPut == \E p \in univ, ts \in GraphTermStrings : DbPut(p, "", ts, "e1", 0)

GraphDelete == \E p \in univ : DbDelete(p)

GraphInit ==
    /\ db = EmptyDb
    /\ now = 0
    /\ univ = {PA, PAB}
    /\ blk = IdleBlk
    /\ last = ""
    /\ cr = [self \in Procs |-> IdleCrawl]
    /\ loop = IdleLoop
    /\ rq = IdleReq
    /\ qy = IdleQuery
    /\ call = IdleGraph
    /\ idx = NewIndex

GraphNext ==
    \/ \E root \in univ : GraphStart(root)
    \/ GraphFlush
    \/ GraphExec
    \/ GraphReceive
    \/ GraphReturn
    \/ GraphPut
    \/ GraphDelete

SpecGraph == GraphInit /\ [][GraphNext]_vars

\* the connection and the goroutine of the call are served
SpecGraphFair ==
    /\ SpecGraph
    /\ WF_vars(GraphFlush)
    /\ WF_vars(GraphExec)
    /\ WF_vars(GraphReceive)
    /\ WF_vars(GraphReturn)

-----------------------------------------------------------------------------
(* The Index under one goroutine that writes (Put, Remove) and one that     *)
(* reads (Get, Query, Subdirs).  call.writer and call.readers are the state *)
(* of idx.mu; call.w and call.r are the two goroutines.  Put and Remove     *)
(* write pkgs/ids and rindex in separate steps between Lock and Unlock.     *)
(* A read made while a writer is between Lock and Unlock is a data race:    *)
(* it yields what the memory holds at that moment or faults.                *)

\* idx.rindex[t], the nil list for a term this model has no entry for
rindexAt(x, t) == IF t \in IdxTerms THEN x.rindex[t] ELSE <<>>

\* the children of prefix among the packages of a posting list
subdirsFilter(x, pl, prefix) ==
    LET kept == SelectSeq(pl, LAMBDA id :
                    /\ pkgAt(x, id) # NilPkg
                    /\ HasPrefix(pkgAt(x, id).ImportPath, prefix)
                    /\ pkgAt(x, id).Name # <<>>)
    IN [k \in 1..Len(kept) |-> pkgAt(x, kept[k]).ImportPath]

RECURSIVE subdirsLoop(_, _, _)
\* the loop looking for the project root; a term whose list is empty gives
\* no results, with or without an entry in rindex
subdirsLoop(x, importPath, prefix) ==
    IF importPath = <<>> THEN <<>>
    ELSE IF rindexAt(x, makeTerm(Str("project:") \o importPath)) # <<>>
    THEN subdirsFilter(x, rindexAt(x, makeTerm(Str("project:") \o importPath)), prefix)
    ELSE subdirsLoop(x, parentPath(importPath), prefix)

\* Index.Subdirs
indexSubdirs(x, importPath) == subdirsLoop(x, importPath, importPath \o <<"/">>)

\* Index.Get: the package, or doc.ErrPackageNotFound
indexGetPkg(x, id) ==
    IF pkgAt(x, id) # NilPkg THEN [err |-> "", path |-> pkgAt(x, id).ImportPath]
    ELSE [err |-> "ErrPackageNotFound", path |-> <<>>]

IdleWriter == [pc |-> "idle", op |-> "", dpkg |-> NilPkg, path |-> <<>>, before |-> NewIndex,
               todo |-> <<>>, bare |-> FALSE]

IdleReader == [pc |-> "idle", op |-> "", path |-> <<>>, fields |-> <<>>, id |-> -1,
               err |-> "", got |-> <<>>, list |-> <<>>,
               locked |-> FALSE, bare |-> FALSE, raced |-> FALSE]

LockPkgs ==
    {DocPkg(PAB, <<"x">>, FALSE, <<"s">>, <<"s", ".">>, <<>>, TRUE),
     DocPkg(PAC, <<"X">>, FALSE, <<>>, <<>>, <<PAB>>, TRUE),
     DocPkg(PAC, <<>>, FALSE, <<>>, <<>>, <<>>, FALSE)}

LockPaths == {PAB, PAC}

LockFields == {<<<<"x">>>>, <<<<"x">>, <<"b">>>>}

\* the Index when the writer's call has returned
written(w) == IF w.op = "Put" THEN indexPut(w.before, w.dpkg) ELSE indexRemove(w.before, w.path)

\* idx.mu.Lock() of Put
PutLock(dpkg) ==
    /\ call.w.pc = "idle"
    /\ ~call.writer /\ call.readers = 0
    /\ idx.ids[dpkg.ImportPath] # -1 \/ pkgsLen(idx) < MaxPkgs
    /\ call' = [call EXCEPT !.writer = TRUE,
                            !.w = [IdleWriter EXCEPT !.pc = "pkgs", !.op = "Put", !.dpkg = dpkg,
                                                     !.before = idx, !.todo = <<"rindex", "unlock">>]]
    /\ UNCHANGED <<db, now, univ, blk, last, cr, loop, rq, qy, idx>>

\* idx.mu.Lock() of Remove, which writes rindex before pkgs
RemoveLock(path) ==
    /\ call.w.pc = "idle"
    /\ ~call.writer /\ call.readers = 0
    /\ call' = [call EXCEPT !.writer = TRUE,
                            !.w = [IdleWriter EXCEPT !.pc = "rindex", !.op = "Remove", !.path = path,
                                                     !.before = idx, !.todo = <<"pkgs", "unlock">>]]
    /\ UNCHANGED <<db, now, univ, blk, last, cr, loop, rq, qy, idx>>

\* the writes of idx.pkgs and idx.ids
WritePkgs ==
    /\ call.w.pc = "pkgs"
    /\ idx' = [idx EXCEPT !.pkgs = written(call.w).pkgs, !.ids = written(call.w).ids]
    /\ call' = [call EXCEPT !.w.pc = Head(call.w.todo), !.w.todo = Tail(call.w.todo),
                            !.w.bare = call.w.bare \/ ~call.writer]
    /\ UNCHANGED <<db, now, univ, blk, last, cr, loop, rq, qy>>

\* the writes of idx.rindex
WriteRindex ==
    /\ call.w.pc = "rindex"
    /\ idx' = [idx EXCEPT !.rindex = written(call.w).rindex]
    /\ call' = [call EXCEPT !.w.pc = Head(call.w.todo), !.w.todo = Tail(call.w.todo),
                            !.w.bare = call.w.bare \/ ~call.writer]
    /\ UNCHANGED <<db, now, univ, blk, last, cr, loop, rq, qy>>

\* the deferred idx.mu.Unlock()
WriteUnlock ==
    /\ call.w.pc = "unlock"
    /\ call' = [call EXCEPT !.writer = FALSE, !.w = IdleWriter]
    /\ UNCHANGED <<db, now, univ, blk, last, cr, loop, rq, qy, idx>>

\* what a read of the Index made now leaves in the reader: without the lock
\* it is bare, and beside a writer it is a race
readNow(c, r) ==
    [r EXCEPT !.bare = c.r.bare \/ ~c.r.locked, !.raced = c.r.raced \/ c.writer]

\* Index.Get, the read of idx.ids[importPath]
getIds(c, x, path) ==
    readNow(c, IF x.ids[path] = -1
               THEN [IdleReader EXCEPT !.op = "Get", !.path = path, !.pc = "return",
                                       !.err = "ErrPackageNotFound"]
               ELSE [IdleReader EXCEPT !.op = "Get", !.path = path, !.pc = "getpkg",
                                       !.id = x.ids[path]])

\* Index.Get, the read of idx.pkgs[id]
getPkgs(c, x) ==
    readNow(c, [c.r EXCEPT !.pc = "return",
                           !.err = indexGetPkg(x, c.r.id).err,
                           !.got = indexGetPkg(x, c.r.id).path])

\* the outcomes of a read: the one computed, and a fault if it raced
outcomes(c, r) == {r} \cup (IF c.writer THEN {[r EXCEPT !.pc = "return", !.err = "fault"]} ELSE {})

GetIds(path) ==
    /\ call.r.pc = "idle"
    /\ \E r \in outcomes(call, getIds(call, idx, path)) : call' = [call EXCEPT !.r = r]
    /\ UNCHANGED <<db, now, univ, blk, last, cr, loop, rq, qy, idx>>

GetPkgs ==
    /\ call.r.pc = "getpkg"
    /\ \E r \in outcomes(call, getPkgs(call, idx)) : call' = [call EXCEPT !.r = r]
    /\ UNCHANGED <<db, now, univ, blk, last, cr, loop, rq, qy, idx>>

\* idx.mu.RLock() of Query
QueryRLock(fields) ==
    /\ call.r.pc = "idle"
    /\ ~call.writer
    /\ call' = [call EXCEPT !.readers = @ + 1,
                            !.r = [IdleReader EXCEPT !.op = "Query", !.fields = fields,
                                                     !.pc = "read", !.locked = TRUE]]
    /\ UNCHANGED <<db, now, univ, blk, last, cr, loop, rq, qy, idx>>

\* idx.mu.RLock() of Subdirs
SubdirsRLock(path) ==
    /\ call.r.pc = "idle"
    /\ ~call.writer
    /\ call' = [call EXCEPT !.readers = @ + 1,
                            !.r = [IdleReader EXCEPT !.op = "Subdirs", !.path = path,
                                                     !.pc = "read", !.locked = TRUE]]
    /\ UNCHANGED <<db, now, univ, blk, last, cr, loop, rq, qy, idx>>

\* the body of Query or Subdirs
lockedRead(c, x) ==
    readNow(c, [c.r EXCEPT !.pc = "runlock",
                           !.list = IF c.r.op = "Query" THEN indexQuery(x, c.r.fields)
                                    ELSE indexSubdirs(x, c.r.path)])

LockedRead ==
    /\ call.r.pc = "read"
    /\ \E r \in outcomes(call, lockedRead(call, idx)) : call' = [call EXCEPT !.r = r]
    /\ UNCHANGED <<db, now, univ, blk, last, cr, loop, rq, qy, idx>>

\* the deferred idx.mu.RUnlock()
ReadRUnlock ==
    /\ call.r.pc = "runlock"
    /\ call' = [call EXCEPT !.readers = @ - 1, !.r.pc = "return", !.r.locked = FALSE]
    /\ UNCHANGED <<db, now, univ, blk, last, cr, loop, rq, qy, idx>>

\* the reader's call returns
ReadReturn ==
    /\ call.r.pc = "return"
    /\ call' = [call EXCEPT !.r = IdleReader]
    /\ UNCHANGED <<db, now, univ, blk, last, cr, loop, rq, qy, idx>>

LockInit ==
    /\ db = EmptyDb
    /\ now = 0
    /\ univ = {}
    /\ blk = IdleBlk
    /\ last = ""
    /\ cr = [self \in Procs |-> IdleCrawl]
    /\ loop = IdleLoop
    /\ rq = IdleReq
    /\ qy = IdleQuery
    /\ call = [fn |-> "Index", writer |-> FALSE, readers |-> 0, w |-> IdleWriter, r |-> IdleReader]
    /\ idx = NewIndex

LockNext ==
    \/ \E dpkg \in LockPkgs : PutLock(dpkg)
    \/ \E path \in LockPaths : RemoveLock(path)
    \/ WritePkgs
    \/ WriteRindex
    \/ WriteUnlock
    \/ \E path \in LockPaths : GetIds(path)
    \/ GetPkgs
    \/ \E fields \in LockFields : QueryRLock(fields)
    \/ \E path \in {PA, PAB} : SubdirsRLock(path)
    \/ LockedRead
    \/ ReadRUnlock
    \/ ReadReturn

SpecLock == LockInit /\ [][LockNext]_vars

-----------------------------------------------------------------------------
(* The Index near the end of the identifier range.  The Index starts as it  *)
(* is after Put of the directories d/0, d/1, ... (packages without a name,  *)
(* which yield no terms), two short of filling the 16-bit identifiers.      *)

\* the number of values of identifier (uint16)
IdentifierSize == 65536

\* the Index after Put(BulkPkg(0)), ..., Put(BulkPkg(n - 1)) on index.New().
\* ids holds the entries of the paths that are put later; the entries of the
\* directories, which no later call writes, are bulkId
bulkIndex(n) ==
    [pkgs |-> [len |-> n, at |-> <<>>],
     ids |-> [path \in IdxPaths |-> -1],
     rindex |-> [t \in IdxTerms |-> <<>>]]

\* idx.ids[BulkPath(k)]: the k-th Put found len(idx.pkgs) = k
bulkId(k) == k % IdentifierSize

\* the directories put before the packages of this model
Bulk == IdentifierSize - 2

\* the packages put near the end of the range
WrapPkgs ==
    {DocPkg(PAB, <<"x">>, FALSE, <<"s">>, <<"s", ".">>, <<>>, TRUE),
     DocPkg(PAC, <<"X">>, FALSE, <<>>, <<>>, <<PAB>>, TRUE),
     DocPkg(PAD, <<"m">>, FALSE, <<"s">>, <<"s", ".">>, <<PAB>>, TRUE)}

WrapPut == \E dpkg \in WrapPkgs : idx' = indexPut(idx, dpkg) /\ call' = [fn |-> "Put", dpkg |-> dpkg]
    /\ UNCHANGED <<db, now, univ, blk, last, cr, loop, rq, qy>>

WrapRemove == \E path \in IdxPaths : IndexRemove(path)

WrapInit ==
    /\ db = EmptyDb
    /\ now = 0
    /\ univ = {}
    /\ blk = IdleBlk
    /\ last = ""
    /\ cr = [self \in Procs |-> IdleCrawl]
    /\ loop = IdleLoop
    /\ rq = IdleReq
    /\ qy = IdleQuery
    /\ call = NoCall
    /\ idx = bulkIndex(Bulk)

WrapNext ==
    \/ WrapPut
    \/ WrapRemove

SpecWrap == WrapInit /\ [][WrapNext]_vars

-----------------------------------------------------------------------------
(* The canonical method declaration of doc/method_set.go.  A type is an AST *)
(* node, a record with the kind of the node; a field list is a sequence of  *)
(* fields [Names, Type]; a nil *ast.FieldList is NoList.  The output buffer *)
(* is a sequence of one-character strings, so that equal output is equal    *)
(* bytes.                                                                   *)

IdentInt == [kind |-> "Ident", Name |-> <<"i", "n", "t">>, Obj |-> FALSE]
IdentError == [kind |-> "Ident", Name |-> <<"e", "r", "r", "o", "r">>, Obj |-> FALSE]
\* a type declared in the package
IdentT == [kind |-> "Ident", Name |-> <<"T">>, Obj |-> TRUE]

Star(x) == [kind |-> "StarExpr", X |-> x]
Ellipsis(elt) == [kind |-> "Ellipsis", Elt |-> elt]
Paren(x) == [kind |-> "ParenExpr", X |-> x]
FuncTypeOf(params, res) == [kind |-> "FuncType", Params |-> params, Results |-> res]

Field(names, typ) == [Names |-> names, Type |-> typ]

\* Results == nil
NoList == [isNil |-> TRUE, List |-> <<>>]
FieldList(fields) == [isNil |-> FALSE, List |-> fields]

\* the predeclared types among the identifiers of this model
predeclaredTypes == {<<"i", "n", "t">>, <<"e", "r", "r", "o", "r">>}

\* strconv.Quote of the import path "q"
quotedPath == <<"\"", "q", "\"">>

\* len(field.Names), 1 for an anonymous field
fieldCount(field) == IF Len(field.Names) = 0 THEN 1 ELSE Len(field.Names)

RECURSIVE NumFields(_)
\* ast.FieldList.NumFields of the fields of a list
NumFields(fields) ==
    IF fields = <<>> THEN 0 ELSE fieldCount(Head(fields)) + NumFields(Tail(fields))

\* faulty variant: the result list counted by its fields, not by its names
resultsParenByFields(list) == ~list.isNil /\ Len(list.List) > 1

\* n.Results != nil && n.Results.NumFields() > 1
resultsParen(list) == ~list.isNil /\ NumFields(list.List) > 1

RECURSIVE writeNode(_, _), writeFields(_, _, _), writeCopies(_, _, _, _)

\* writeParams: the loop over list.List, sep the fields already written
writeFields(buf, fields, sep) ==
    IF fields = <<>> THEN buf
    ELSE writeFields(writeCopies(buf, Head(fields).Type, fieldCount(Head(fields)), sep),
                     Tail(fields), TRUE)

\* writeParams: for i := 0; i < m; i++, a ',' before all but the first type
writeCopies(buf, typ, m, sep) ==
    IF m = 0 THEN buf
    ELSE writeCopies(writeNode(IF sep THEN Append(buf, ",") ELSE buf, typ), typ, m - 1, TRUE)

writeParams(buf, list, paren) ==
    LET inner == writeFields(IF paren THEN Append(buf, "(") ELSE buf, list.List, FALSE)
    IN IF paren THEN Append(inner, ")") ELSE inner

writeFunc(buf, n) ==
    writeParams(writeParams(buf, n.Params, TRUE), n.Results, resultsParen(n.Results))

writeNode(buf, n) ==
    IF n.kind = "Ellipsis" THEN writeNode(buf \o <<".", ".", ".">>, n.Elt)
    ELSE IF n.kind = "ParenExpr" THEN Append(writeNode(Append(buf, "("), n.X), ")")
    ELSE IF n.kind = "StarExpr" THEN writeNode(Append(buf, "*"), n.X)
    ELSE IF n.kind = "FuncType" THEN writeFunc(buf \o <<"f", "u", "n", "c">>, n)
    ELSE IF n.Obj \/ n.Name \notin predeclaredTypes THEN buf \o quotedPath \o <<".">> \o n.Name
    ELSE buf \o n.Name

\* fingerprinter.method: the buffer after p.buf = p.buf[:0]; p.writeFunc(fd.typ)
canonical(n) == writeFunc(<<>>, n)

\* the parameter and result names of this model
ParamNames == {<<"a">>, <<"b">>, <<"x">>, <<"y">>}

CanonTypes ==
    {IdentInt, Star(IdentT), Ellipsis(IdentInt), Paren(IdentInt),
     FuncTypeOf(FieldList(<<Field(<<<<"a">>>>, IdentInt)>>), FieldList(<<Field(<<<<"b">>>>, IdentError)>>)),
     FuncTypeOf(FieldList(<<Field(<<>>, IdentInt)>>), FieldList(<<Field(<<>>, IdentError)>>))}

\* the ways to write one parameter of a type, and two parameters
OneField == {<<Field(names, t)>> : names \in {<<>>, <<<<"a">>>>}, t \in CanonTypes}

TwoFields ==
    {<<Field(<<<<"a">>, <<"b">>>>, IdentInt)>>,
     <<Field(<<<<"x">>>>, IdentInt), Field(<<<<"y">>>>, IdentInt)>>,
     <<Field(<<>>, IdentInt), Field(<<>>, IdentInt)>>,
     <<Field(<<<<"a">>>>, IdentInt), Field(<<<<"b">>>>, IdentError)>>,
     <<Field(<<>>, IdentInt), Field(<<>>, IdentError)>>,
     <<Field(<<>>, IdentError), Field(<<>>, IdentInt)>>}

ParamLists == {FieldList(fs) : fs \in {<<>>} \cup OneField \cup TwoFields}

ResultLists ==
    {NoList, FieldList(<<>>), FieldList(<<Field(<<>>, IdentError)>>),
     FieldList(<<Field(<<<<"x">>>>, IdentError)>>)}
    \cup {FieldList(fs) : fs \in TwoFields}

FuncTypes == {FuncTypeOf(ps, rs) : ps \in ParamLists, rs \in ResultLists}

\* two methods are fingerprinted
MethodCall ==
    /\ call.fn = "args"
    /\ call' = [fn |-> "method", a |-> call.a, b |-> call.b,
                bufA |-> canonical(call.a), bufB |-> canonical(call.b)]
    /\ UNCHANGED <<db, now, univ, blk, last, cr, loop, rq, qy, idx>>

CanonInit ==
    /\ db = EmptyDb
    /\ now = 0
    /\ univ = {}
    /\ blk = IdleBlk
    /\ last = ""
    /\ cr = [self \in Procs |-> IdleCrawl]
    /\ loop = IdleLoop
    /\ rq = IdleReq
    /\ qy = IdleQuery
    /\ call \in {[fn |-> "args", a |-> a, b |-> b] : a \in FuncTypes, b \in FuncTypes}
    /\ idx = NewIndex

CanonNext == MethodCall

SpecCanon == CanonInit /\ [][CanonNext]_vars

-----------------------------------------------------------------------------
(* doc.ValidRemotePath, on import paths as sequences of characters *)

\* the runes ValidRemotePath rejects, among the characters of this model
badRunes == {" ", "\\", "!", ":"}

\* [-A-Za-z0-9], among the characters of this model
hostChars ==
    {"-", "0", "1", "2", "3", "4", "5", "6", "7", "8", "9",
     "a", "b", "c", "d", "e", "f", "g", "h", "i", "j", "k", "l", "m",
     "n", "o", "p", "q", "r", "s", "t", "u", "v", "w", "x", "y", "z"}

\* the entries of validTLD this model uses
validTLD == {<<".", "c", "o", "m">>, <<".", "o", "r", "g">>}

\* the packages of the standard library this model uses
stdlibPackages == {<<"f", "m", "t">>, <<"c", "o", "m", "p", "r", "e", "s", "s", "/", "g", "z", "i", "p">>}

RECURSIVE Split(_)
\* strings.Split(s, "/")
Split(s) ==
    IF Index(s, <<"/">>) = -1 THEN <<s>>
    ELSE <<SubSeq(s, 1, Index(s, <<"/">>))>> \o Split(Suffix(s, Index(s, <<"/">>) + 1))

\* path.Ext of a string without a slash: from the final dot on, "" without a dot
Ext(s) ==
    LET dots == {i \in 1..Len(s) : s[i] = "."} IN
    IF dots = {} THEN <<>>
    ELSE SubSeq(s, CHOOSE i \in dots : \A j \in dots : j <= i, Len(s))

RECURSIVE hostRun(_, _)
\* the number of characters of [-A-Za-z0-9] in s from position i on
hostRun(s, i) == IF i <= Len(s) /\ s[i] \in hostChars THEN 1 + hostRun(s, i + 1) ELSE 0

\* validHost.MatchString: ^[-A-Za-z0-9]+(?:\.[-A-Za-z0-9]+)+ matches a prefix
validHostMatch(s) ==
    /\ hostRun(s, 1) >= 1
    /\ hostRun(s, 1) + 1 <= Len(s)
    /\ s[hostRun(s, 1) + 1] = "."
    /\ hostRun(s, hostRun(s, 1) + 2) >= 1

\* the test of parts[1:]
badPart(part) ==
    \/ Len(part) = 0
    \/ part[1] = "."
    \/ part[1] = "_"
    \/ part = <<"t", "e", "s", "t", "d", "a", "t", "a">>

SrcPkgSlash == <<"/", "s", "r", "c", "/", "p", "k", "g", "/">>

\* i := strings.Index(importPath, "/src/pkg/"); i > 0 && StandardPackages[importPath[i+len("/src/pkg/"):]]
isStandardCopy(importPath) ==
    /\ Index(importPath, SrcPkgSlash) > 0
    /\ Suffix(importPath, Index(importPath, SrcPkgSlash) + Len(SrcPkgSlash)) \in stdlibPackages

ValidRemotePath(importPath) ==
    IF \E i \in 1..Len(importPath) : importPath[i] \in badRunes THEN FALSE
    ELSE IF Ext(Split(importPath)[1]) \notin validTLD THEN FALSE
    ELSE IF ~validHostMatch(Split(importPath)[1]) THEN FALSE
    ELSE IF \E k \in 2..Len(Split(importPath)) : badPart(Split(importPath)[k]) THEN FALSE
    ELSE ~isStandardCopy(importPath)

\* first segments: hosts with and without a recognised top-level domain
VrpHosts == {<<"g", "i", "t", "h", "u", "b", ".", "c", "o", "m">>, <<"e", "x", "a", "m", "p", "l", "e", ".", "o", "r", "g">>, <<"f", "o", "o", "b", "a", "r">>, <<"f", "o", "o", ".">>, <<".", "b", "a", "r">>, <<"f", "a", "v", "i", "c", "o", "n", ".", "i", "c", "o">>, <<"a", ".", "b", ".", "o", "r", "g">>}

\* later segments
VrpSegs == {<<"u", "s", "e", "r">>, <<"r", "e", "p", "o">>, <<"s", "r", "c">>, <<"p", "k", "g">>, <<"f", "m", "t">>, <<"x">>, <<"t", "e", "s", "t", "d", "a", "t", "a">>, <<"_", "i", "g", "n", "o", "r", "e">>, <<".", "i", "g", "n", "o", "r", "e">>, <<>>}

RECURSIVE Join(_)
\* the segments, each after a slash
Join(segs) == IF segs = <<>> THEN <<>> ELSE <<"/">> \o Head(segs) \o Join(Tail(segs))

\* up to two segments, and the longer tails of the copies of the Go tree
VrpTails ==
    {<<>>} \cup {<<a>> : a \in VrpSegs} \cup {<<a, b>> : a, b \in VrpSegs}
    \cup {<<<<"u", "s", "e", "r">>, <<"r", "e", "p", "o">>, <<"s", "r", "c">>, <<"p", "k", "g">>>>,
          <<<<"u", "s", "e", "r">>, <<"r", "e", "p", "o">>, <<"s", "r", "c">>, <<"p", "k", "g">>, <<"f", "m", "t">>>>,
          <<<<"u", "s", "e", "r">>, <<"r", "e", "p", "o">>, <<"s", "r", "c">>, <<"p", "k", "g">>, <<"c", "o", "m", "p", "r", "e", "s", "s">>, <<"g", "z", "i", "p">>>>,
          <<<<"u", "s", "e", "r">>, <<"r", "e", "p", "o">>, <<"s", "r", "c">>, <<"p", "k", "g">>, <<"c", "o", "m", "p", "r", "e", "s", "s">>, <<"x">>>>,
          <<<<"u", "s", "e", "r">>, <<"r", "e", "p", "o">>, <<"s", "r", "c">>, <<"c", "o", "m", "p", "r", "e", "s", "s">>, <<"g", "z", "i", "p">>>>,
          <<<<"u", "s", "e", "r">>, <<"s", "r", "c">>, <<"p", "k", "g">>, <<"x">>, <<"s", "r", "c">>, <<"p", "k", "g">>, <<"f", "m", "t">>>>}

VrpPaths == {h \o Join(t) : h \in VrpHosts, t \in VrpTails}

ValidRemotePathCall ==
    /\ call.fn = "args"
    /\ call' = [fn |-> "ValidRemotePath", importPath |-> call.importPath,
                res |-> ValidRemotePath(call.importPath)]
    /\ UNCHANGED <<db, now, univ, blk, last, cr, loop, rq, qy, idx>>

PathInit ==
    /\ db = EmptyDb
    /\ now = 0
    /\ univ = {}
    /\ blk = IdleBlk
    /\ last = ""
    /\ cr = [self \in Procs |-> IdleCrawl]
    /\ loop = IdleLoop
    /\ rq = IdleReq
    /\ qy = IdleQuery
    /\ call \in {[fn |-> "args", importPath |-> p] : p \in VrpPaths}
    /\ idx = NewIndex

PathNext == ValidRemotePathCall

SpecPath == PathInit /\ [][PathNext]_vars

-----------------------------------------------------------------------------
(* doc.fetchMeta: the scan of the tokens of the ?go-get=1 response.  A token *)
(* is a start element, an end element or character data; of the attributes *)
(* of a start element the model keeps name and content.                     *)

StartElement(name, attrName, content) ==
    [kind |-> "StartElement", Local |-> name, name |-> attrName, content |-> content]
EndElement(name) == [kind |-> "EndElement", Local |-> name, name |-> "", content |-> <<>>]
CharData == [kind |-> "CharData", Local |-> "", name |-> "", content |-> <<>>]

\* strings.EqualFold(t.Name.Local, name), on the element names of this model
EqualFold(local, name) ==
    \/ local = name
    \/ local = "META" /\ name = "meta"
    \/ local = "HEAD" /\ name = "head"
    \/ local = "Body" /\ name = "body"

RECURSIVE Fields(_)
\* strings.Fields: the maximal runs without a space
Fields(s) ==
    IF s = <<>> THEN <<>>
    ELSE IF Head(s) = " " THEN Fields(Tail(s))
    ELSE IF Index(s, <<" ">>) = -1 THEN <<s>>
    ELSE <<SubSeq(s, 1, Index(s, <<" ">>))>> \o Fields(Suffix(s, Index(s, <<" ">>)))

\* faulty variant: the prefix test without the test of the next character
metaMatchesAnyPrefix(importPath, f) == Len(f) = 3 /\ HasPrefix(importPath, f[1])

\* len(f) == 3, importPath has the prefix f[0] and ends there or goes on with '/'
metaMatches(importPath, f) ==
    /\ Len(f) = 3
    /\ HasPrefix(importPath, f[1])
    /\ (Len(importPath) = Len(f[1]) \/ importPath[Len(f[1]) + 1] = "/")

NoMeta == [err |-> "nil", found |-> FALSE, projectRoot |-> <<>>, vcs |-> <<>>, repo |-> <<>>,
           projectName |-> <<>>, scheme |-> ""]

NotFoundMeta(why) == [NoMeta EXCEPT !.err = why]

\* m = &meta{...}
metaOf(f, scheme) ==
    [err |-> "nil", found |-> TRUE, projectRoot |-> f[1], vcs |-> f[2], repo |-> f[3],
     projectName |-> splitName(f[1]), scheme |-> scheme]

RECURSIVE metaScan(_, _, _, _)
\* the loop metaScan from token i on, m the meta found so far; the end of the
\* tokens is the error of d.Token()
metaScan(tokens, i, importPath, m) ==
    IF i > Len(tokens) THEN m
    ELSE IF tokens[i].kind = "EndElement"
    THEN IF EqualFold(tokens[i].Local, "head") THEN m
         ELSE metaScan(tokens, i + 1, importPath, m)
    ELSE IF tokens[i].kind = "StartElement"
    THEN IF EqualFold(tokens[i].Local, "body") THEN m
         ELSE IF ~EqualFold(tokens[i].Local, "meta") \/ tokens[i].name # "go-import"
         THEN metaScan(tokens, i + 1, importPath, m)
         ELSE IF ~metaMatches(importPath, Fields(tokens[i].content))
         THEN metaScan(tokens, i + 1, importPath, m)
         ELSE IF m.found THEN NotFoundMeta("More than one <meta> found")
         ELSE metaScan(tokens, i + 1, importPath, metaOf(Fields(tokens[i].content), m.scheme))
    ELSE metaScan(tokens, i + 1, importPath, m)

\* if m == nil: NotFoundError
metaResult(m) == IF m.err = "nil" /\ ~m.found THEN NotFoundMeta("<meta> not found.") ELSE m

\* the response read: https when it answers 200, else http, RemoteError when
\* that fails too
fetchMeta(importPath, resp) ==
    IF resp.https = "200" THEN metaResult(metaScan(resp.tokens, 1, importPath, [NoMeta EXCEPT !.scheme = "https"]))
    ELSE IF resp.http = "error" THEN NotFoundMeta("RemoteError")
    ELSE metaResult(metaScan(resp.tokens, 1, importPath, [NoMeta EXCEPT !.scheme = "http"]))

MetaRoot == <<"e", ".", "o", "r", "g", "/", "x">>
MetaParent == <<"e", ".", "o", "r", "g">>

ContentExact == <<"e", ".", "o", "r", "g", "/", "x", " ", "g", "i", "t", " ", "h", ":", "/", "/", "r">>
ContentParent == <<"e", ".", "o", "r", "g", " ", "h", "g", " ", "h", ":", "/", "/", "r">>
ContentNoBoundary == <<"e", ".", "o", "r", " ", "g", "i", "t", " ", "h", ":", "/", "/", "r">>
ContentTwoFields == <<"e", ".", "o", "r", "g", "/", "x", " ", "g", "i", "t">>
ContentFourFields == <<"e", ".", "o", "r", "g", "/", "x", " ", " ", "g", "i", "t", " ", "h", ":", "/", "/", "r", " ", "z">>

MetaTokens ==
    {StartElement("meta", "go-import", ContentExact),
     StartElement("META", "go-import", ContentParent),
     StartElement("meta", "go-import", ContentNoBoundary),
     StartElement("meta", "go-import", ContentTwoFields),
     StartElement("meta", "go-import", ContentFourFields),
     StartElement("meta", "keywords", ContentExact),
     StartElement("head", "", <<>>),
     StartElement("Body", "", <<>>),
     EndElement("HEAD"),
     EndElement("title"),
     CharData}

MaxTokens == 3

TokenSeqs == UNION {[1..n -> MetaTokens] : n \in 0..MaxTokens}

MetaResponses == [https : {"200", "other"}, http : {"ok", "error"}, tokens : TokenSeqs]

FetchMetaCall ==
    /\ call.fn = "args"
    /\ call' = [fn |-> "fetchMeta", importPath |-> call.importPath, resp |-> call.resp,
                m |-> fetchMeta(call.importPath, call.resp)]
    /\ UNCHANGED <<db, now, univ, blk, last, cr, loop, rq, qy, idx>>

MetaInit ==
    /\ db = EmptyDb
    /\ now = 0
    /\ univ = {}
    /\ blk = IdleBlk
    /\ last = ""
    /\ cr = [self \in Procs |-> IdleCrawl]
    /\ loop = IdleLoop
    /\ rq = IdleReq
    /\ qy = IdleQuery
    /\ call \in {[fn |-> "args", importPath |-> MetaRoot, resp |-> r] : r \in MetaResponses}
    /\ idx = NewIndex

MetaNext == FetchMetaCall

SpecMeta == MetaInit /\ [][MetaNext]_vars

-----------------------------------------------------------------------------
(* Properties of the store *)

HasPkg(d, i) == d.pkg[i] # NoPkg

\* C1: the inverted index and the records agree: every id of index:t is a
\* record whose stored terms contain t, and every record is a member of
\* index:t for every term t of its stored terms.
IndexAgreesWithRecords ==
    /\ \A t \in Terms : \A i \in db.index[t] :
            HasPkg(db, i) /\ t \in Range(db.pkg[i].terms)
    /\ \A i \in Ids : HasPkg(db, i) =>
            \A t \in Range(db.pkg[i].terms) : i \in db.index[t]

\* C2: an id is a member of the crawl sorted set if and only if the record
\* pkg:<id> exists, and the record exists if and only if the key id:<path>
\* of its path holds that id.
CrawlIffRecord ==
    /\ \A i \in Ids : (db.crawl[i] # NoScore) <=> HasPkg(db, i)
    /\ \A i \in Ids : HasPkg(db, i) => db.id[db.pkg[i].path] = i
    /\ \A p \in AllPaths : Exists(db, p) =>
            HasPkg(db, db.id[p]) /\ db.pkg[db.id[p]].path = p

\* a touch has just run while one path is deleted (its id is used up and has
\* no score) and the other record, a member of the project set, has score now
CrawlIffRecordWitness ==
    /\ last = "touch"
    /\ now = 1
    /\ ~Exists(db, PA)
    /\ db.maxPackageId = 2
    /\ Exists(db, PAB)
    /\ db.crawl[db.id[PAB]] = 1
    /\ db.id[PAB] \in db.index[ProjectTerm(PA)]

\* C5: a touch sets the score of the path's record and of every record of
\* the project set of root with the given etag to now, and changes nothing
\* else: no hash, no index set, no id key, no other score.
TouchOnlyAdvancesCrawl ==
    [][last' = "touch" => \A r \in Roots, p \in univ, e \in Etags :
        DbTouch(r, p, e) =>
            /\ db'.pkg = db.pkg
            /\ db'.index = db.index
            /\ db'.id = db.id
            /\ db'.block = db.block
            /\ db'.maxPackageId = db.maxPackageId
            /\ \A i \in Ids :
                db'.crawl[i] =
                    IF \/ (Exists(db, p) /\ i = db.id[p])
                       \/ (i \in db.index[ProjectTerm(r)] /\ HasPkg(db, i) /\ db.pkg[i].etag = e)
                    THEN now
                    ELSE db.crawl[i]]_vars

\* a touch has just advanced one record of the project to now and left its
\* sibling, whose etag differs, at its older score
TouchOnlyAdvancesCrawlWitness ==
    /\ last = "touch"
    /\ now = 1
    /\ Exists(db, PA) /\ Exists(db, PAB)
    /\ {db.id[PA], db.id[PAB]} \subseteq db.index[ProjectTerm(PA)]
    /\ db.pkg[db.id[PA]].etag # db.pkg[db.id[PAB]].etag
    /\ db.crawl[db.id[PA]] = 1
    /\ db.crawl[db.id[PAB]] = 0

-----------------------------------------------------------------------------
(* Properties of crawlDoc *)

\* Database.Block has returned for root: root is in the block set and no
\* Block call is running
BlockCompleted(root) == root \in db.block /\ blk.pc = "idle"

\* C3: once Block(root) has completed, the store holds no record whose path
\* is root or a descendant of root.
NoRecordUnderBlockedRoot ==
    \A root \in Roots : BlockCompleted(root) =>
        \A p \in AllPaths : Exists(db, p) => ~blockMatches(p, root)

\* C4: the step of crawlDoc that ends it performs the store mutation its
\* outcome determines: ok puts the fetched package, not-modified touches and
\* keeps every hash, not-found deletes, a pre-check hit (mirror, nested copy,
\* blocked) deletes and doc.Get was never called, any other error changes
\* nothing in the store.
CrawlDocMutation ==
    [][(cr["web"].pc = "apply" /\ cr["web"]'.pc = "done") =>
        LET c == cr["web"]
            id == db.id[c.path]
        IN  /\ c.err \in {"nil", "notmodified", "notfound", "error"}
            /\ c.err = "nil" =>
                    /\ c.called /\ cr["web"]'.op = "put"
                    /\ Exists(db', c.path)
                    /\ db'.pkg[db'.id[c.path]] =
                          [path |-> c.path, terms |-> DocumentTerms(c.path), etag |-> c.new, gob |-> c.new]
                    /\ db'.crawl[db'.id[c.path]] >= c.updated
            /\ c.err = "notmodified" =>
                    /\ c.called /\ cr["web"]'.op = "touch"
                    /\ db'.pkg = db.pkg /\ db'.index = db.index /\ db'.id = db.id
                    /\ Exists(db, c.path) => db'.crawl[id] = now
            /\ c.err = "notfound" =>
                    /\ cr["web"]'.op = "delete"
                    /\ ~Exists(db', c.path)
                    /\ \A p \in AllPaths \ {c.path} : db'.id[p] = db.id[p]
                    /\ \A i \in Ids \ {id} : db'.pkg[i] = db.pkg[i] /\ db'.crawl[i] = db.crawl[i]
                    /\ c.called <=> c.why = ""
            /\ (isMirror(c.path, SrcPkg) \/ isMirror(c.path, LibgoGo) \/ c.why # "") =>
                    c.err = "notfound" /\ ~c.called
            /\ c.err = "error" =>
                    c.called /\ cr["web"]'.op = "none" /\ db' = db]_vars

\* a crawl of a path that is a nested copy of a stored project has ended: its
\* record, stored before the project itself was, is deleted and doc.Get was
\* not called
CrawlDocMutationWitness ==
    /\ cr["web"].pc = "done"
    /\ cr["web"].path = PNest
    /\ cr["web"].why = "nested"
    /\ ~cr["web"].called
    /\ cr["web"].op = "delete"
    /\ db.maxPackageId = 2
    /\ Exists(db, PGU)
    /\ ~Exists(db, PNest)

-----------------------------------------------------------------------------
(* Properties of the background crawl loop *)

\* the step in which the loop's iteration changes the store: the last step
\* of crawlDoc, or on an error the touch that follows its return
LoopMutates ==
    \/ cr["bg"].pc = "apply" /\ cr["bg"]'.pc = "done" /\ cr["bg"].err # "error"
    \/ loop.pc = "crawl" /\ loop'.pc = "get" /\ cr["bg"].err = "error"

\* C6: Get("-") returns a record of minimal crawl time; the iteration on a
\* record deletes it or leaves it with a crawl time strictly greater than
\* the one the loop read; and the loop does not pick the record of its
\* previous iteration again while another record has a crawl time equal to
\* (or older than) that record's.
CrawlPicksOldest ==
    [][/\ (loop.pc = "get" /\ loop'.pc = "sleep") =>
            /\ HasPkg(db, loop'.id)
            /\ loop'.lastCrawl = db.crawl[loop'.id]
            /\ \A j \in Ids : HasPkg(db, j) => db.crawl[loop'.id] <= db.crawl[j]
            /\ loop'.id = loop.id =>
                    \A j \in Ids \ {loop.id} : HasPkg(db, j) => db.crawl[j] > db.crawl[loop.id]
       /\ LoopMutates =>
            \/ ~HasPkg(db', loop.id)
            \/ db'.crawl[loop.id] > loop.lastCrawl]_vars

\* C7: a record whose fetch always fails does not keep the loop from the
\* other records: every other stored record is eventually crawled by the
\* loop (or deleted).
PoisonCannotStarve ==
    \A p \in {PA, PAB} \ {Poison} :
        Exists(db, p) ~> (~Exists(db, p) \/ (loop.pc = "crawl" /\ loop.path = p))

-----------------------------------------------------------------------------
(* Properties of the requests that crawl *)

TaskPcs == {"check", "blocked", "fetch", "apply", "done"}

\* C8: a getDoc whose deadline elapsed waited firstGetTimeout when db.Get had
\* returned no package and getTimeout otherwise; with a package it returns
\* that stale package and no error, without one it reports not found (404).
GetDocTimeoutOutcome ==
    (rq.pc = "done" /\ rq.kind = "getDoc" /\ rq.timedOut) =>
        /\ rq.waited = (IF rq.had = "" THEN FirstGetTimeout ELSE GetTimeout)
        /\ rq.had # "" =>
                rq.err = "nil" /\ rq.pdoc = rq.had /\ rq.status = 200 /\ rq.body = rq.had
        /\ rq.had = "" =>
                rq.err = "web404" /\ rq.pdoc = "" /\ rq.status = 404

\* getDoc has served the stale package at its deadline while the crawl task
\* was still fetching
GetDocTimeoutOutcomeWitness ==
    /\ rq.pc = "done" /\ rq.kind = "getDoc" /\ rq.timedOut
    /\ rq.had = "e1"
    /\ rq.waited = GetTimeout
    /\ rq.status = 200
    /\ cr["web"].pc = "fetch"

\* C9: the crawl task is never kept from its next step, whatever the request
\* does: it is not stopped when the request gives up at its deadline, its
\* send finds room in the channel, it ends, and when it has ended after the
\* request gave up the store holds what its outcome demands.
CrawlTaskRunsToCompletion ==
    /\ [](cr["web"].pc \in TaskPcs => ENABLED TaskStep)
    /\ [][ReqTimeout => cr' = cr /\ db' = db]_vars
    /\ [](cr["web"].pc \in TaskPcs => <>(cr["web"].pc = "exit"))
    /\ []((cr["web"].pc = "exit" /\ rq.timedOut) =>
            /\ Len(rq.ch) = 1
            /\ cr["web"].op = crawlOp(cr["web"].err)
            /\ cr["web"].err = "nil" => storedEtag(db, rq.path) = cr["web"].new
            /\ cr["web"].err = "notfound" => ~Exists(db, rq.path)
            /\ cr["web"].err = "notmodified" =>
                    storedEtag(db, rq.path) = rq.had /\ db.crawl[db.id[rq.path]] >= 0)

\* the request answered 404 at its deadline while the task was fetching;
\* the task has since put the package and ended with its result in the
\* channel, which nobody receives
CrawlTaskRunsToCompletionWitness ==
    /\ rq.pc = "done" /\ rq.kind = "getDoc" /\ rq.timedOut
    /\ rq.had = "" /\ rq.status = 404
    /\ cr["web"].pc = "exit"
    /\ cr["web"].op = "put"
    /\ Exists(db, rq.path)
    /\ db.crawl[db.id[rq.path]] = 1
    /\ rq.ch = <<[pdoc |-> cr["web"].new, err |-> "nil"]>>

CrawlStartedWhenNeeded ==
    [][(rq'.n = rq.n + 1 /\ rq'.kind = "getDoc") =>
        LET p == rq'.path
            started == rq'.pc = "wait" /\ cr'["web"].pc = "check" /\ cr'["web"].path = p
            rec == Exists(db, p)
            subs == \E q \in AllPaths : Exists(db, q) /\ HasPrefix(q, p \o <<"/">>)
        IN  /\ rq'.type = "query" => (started <=> (~rec /\ ~subs))
            /\ rq'.type = "human" => (started <=> (~rec \/ now - db.crawl[db.id[p]] > Day))
            /\ rq'.type = "robot" => (started <=> (~rec /\ subs))
            /\ ~started => rq'.pc = "done" /\ cr'["web"].pc = "idle"]_vars

\* a human request for a package fetched exactly 24 h before has been
\* answered from the store without a crawl
CrawlStartedWhenNeededWitness ==
    /\ rq.kind = "getDoc" /\ rq.type = "human"
    /\ rq.pc = "done" /\ ~rq.timedOut
    /\ cr["web"].pc = "idle"
    /\ rq.had # "" /\ rq.pdoc = rq.had
    /\ Exists(db, rq.path)
    /\ now - db.crawl[db.id[rq.path]] = Day

-----------------------------------------------------------------------------
(* Properties of Database.Query *)

\* C12: Query is one atomic step beside Put and Delete: every entry of its
\* result is the path of a record, never the empty path of a record that was
\* deleted in between.
QueryIsAtomic ==
    qy.pc \in {"del", "done"} => \A path \in qy.result : path # <<>>

-----------------------------------------------------------------------------
(* Properties of the in-memory index *)

\* the packages stored in the index
storedPkgs(x) == {x.pkgs.at[k] : k \in DOMAIN x.pkgs.at} \ {NilPkg}

\* C13: a query of N >= 1 fields returns exactly the packages whose term set
\* contains the term of every one of the N fields.
QueryIntersectsAllTerms ==
    [][\A fields \in FieldLists : IndexQuery(fields) =>
        Range(call'.res) =
            {d.ImportPath : d \in {e \in storedPkgs(idx) :
                \A k \in 1..Len(fields) : makeTerm(fields[k]) \in packageTerms(e)}}]_vars

\* the terms whose posting list holds the id of path
indexedUnder(x, path) ==
    {t \in IdxTerms : x.ids[path] \in Range(x.rindex[t])}

\* the search terms of a package: its imports, its name and the final
\* segment of its path
searchTerms(dpkg) ==
    {makeTerm(Str("import:") \o imp) : imp \in Range(dpkg.Imports)}
    \cup {makeTerm(dpkg.Name), makeTerm(splitName(dpkg.ImportPath))}

\* C19: after Put, a command with a synopsis and a sentence of doc is
\* indexed under project:<root> and its search terms; a command without
\* synopsis or without a sentence of doc under project:<root> only; a
\* package with an empty name under no term.
CommandTermsExtracted ==
    [][\A dpkg \in DocPkgs : IndexPut(dpkg) =>
        LET project == {makeTerm(Str("project:") \o dpkg.ProjectRoot)}
            under == indexedUnder(idx', dpkg.ImportPath)
        IN  /\ dpkg.Name = <<>> => under = {}
            /\ (dpkg.Name # <<>> /\ dpkg.IsCmd) =>
                    under = IF dpkg.Synopsis # <<>> /\ Index(dpkg.Doc, <<".">>) >= 0
                            THEN project \cup searchTerms(dpkg)
                            ELSE project]_vars

(***************************************************************************)
(* C15: IsBlocked(path) is true exactly when the blocklist holds path      *)
(* itself or a prefix of path that is followed in path by a "/": with      *)
(* "a/b" blocked, "a/b/c" is blocked and "a/bc" is not unless some other   *)
(* entry covers it.                                                        *)
(***************************************************************************)
IsBlockedIffSegmentPrefix ==
    [][\A path \in BlockedPaths : IsBlocked(path) =>
        (call'.res <=>
            \E root \in db.block :
                \/ root = path
                \/ /\ Len(root) < Len(path)
                   /\ SubSeq(path, 1, Len(root)) = root
                   /\ path[Len(root) + 1] = "/")]_vars

\* "a/b" alone is blocked; "a/b/c" was found blocked
IsBlockedIffSegmentPrefixWitness ==
    /\ db.block = {PAB}
    /\ call.fn = "IsBlocked"
    /\ call.path = PABC
    /\ call.res

\* "a/b" alone is blocked; "a/bc" was found not blocked
IsBlockedSiblingWitness ==
    /\ db.block = {PAB}
    /\ call.fn = "IsBlocked"
    /\ call.path = PABc
    /\ ~call.res

GetMetaDiscoveryWitness ==
    /\ call.fn = "Get"
    /\ call.importPath = PMeta
    /\ call.ret.route = <<"getStatic", "getDynamic", "getStatic", "getVCS">>
    /\ ~call.ret.pdoc.nil

(***************************************************************************)
(* C20: the signature hash returns is the md5 digest of the canonical      *)
(* bytes in every bit but the two lowest bits of the first byte, which are *)
(* the embedded and exported flags: IsExported and IsEmbeddedInterface     *)
(* give back the flags passed, and two different canonical byte strings    *)
(* hashed with the same flags have different signatures.                   *)
(***************************************************************************)
SignatureIsTaggedDigest ==
    call.fn = "hash" =>
        /\ \A i \in 2..SigSize : call.sig[i] = md5Sum(call.p)[i]
        /\ call.sig[1] \div allMask = md5Sum(call.p)[1] \div allMask
        /\ IsExported(call.sig) = call.exported
        /\ IsEmbeddedInterface(call.sig) = call.embedded
        /\ (/\ call.prev # NoHash
            /\ call.prev.p # call.p
            /\ call.prev.exported = call.exported
            /\ call.prev.embedded = call.embedded) => call.prev.sig # call.sig

\* the part that holds: the two flags are read back as they were passed
SignatureFlagsReadBack ==
    call.fn = "hash" =>
        /\ IsExported(call.sig) = call.exported
        /\ IsEmbeddedInterface(call.sig) = call.embedded

(***************************************************************************)
(* C14: when a standard package whose name is exactly q is among the       *)
(* results of Query(q), the first result is a standard package whose name  *)
(* is q; and the results are in descending order of rank.                  *)
(***************************************************************************)
ExactStandardMatchFirst ==
    call.fn = "Query" =>
        /\ (\E k \in 1..Len(call.res) :
                call.res[k].Path \in StandardPackages /\ call.res[k].Name = call.q)
            => (call.res[1].Path \in StandardPackages /\ call.res[1].Name = call.q)
        /\ \A i, j \in 1..Len(call.res) : i < j => call.res[i].rank >= call.res[j].rank

\* the parts that hold: the results are the reply in another order, still by
\* descending rank, and a standard package whose path ends with q leads
\* when there is one
QueryMovesPathSuffixMatch ==
    call.fn = "Query" =>
        /\ Range(call.res) = Range(call.pkgs) /\ Len(call.res) = Len(call.pkgs)
        /\ \A i, j \in 1..Len(call.res) : i < j => call.res[i].rank >= call.res[j].rank
        /\ (\E k \in 1..Len(call.res) :
                /\ call.res[k].Path \in StandardPackages
                /\ Len(call.q) <= Len(call.res[k].Path)
                /\ \A n \in 1..Len(call.q) :
                      call.res[k].Path[Len(call.res[k].Path) - Len(call.q) + n] = call.q[n])
            => /\ call.res[1].Path \in StandardPackages
               /\ \A n \in 1..Len(call.q) :
                      call.res[1].Path[Len(call.res[1].Path) - Len(call.q) + n] = call.q[n]

(***************************************************************************)
(* C24: after Put(path, terms) the id of the package is a member of        *)
(* index:t for every term t that occurs in the terms string, however often *)
(* it occurs and whether or not it was among the stored terms.             *)
(***************************************************************************)
PutIndexesEveryTerm ==
    [][\A p \in AllPaths, ts \in TermStrings, e \in Etags, u \in 0..MaxTime :
          DbPut(p, e, ts, e, u) =>
              \A t \in Range(ts) : db'.id[p] \in db'.index[t]]_vars

\* the part that holds: a term that occurs once in the terms string and was
\* not among the stored terms
PutIndexesSingleTerms ==
    [][\A p \in AllPaths, ts \in TermStrings, e \in Etags, u \in 0..MaxTime :
          DbPut(p, e, ts, e, u) =>
              \A t \in Range(ts) :
                  (Count(ts, t) = 1 /\ t \notin Range(storedTerms(db, db.id[p])))
                      => db'.id[p] \in db'.index[t]]_vars

(***************************************************************************)
(* C25: the map from paths to ids is injective and every existing path has *)
(* one record, its own; a path that gets an id gets one that no path ever  *)
(* had, so two Puts of one unknown path, in either order, make one id and  *)
(* one record, and an id released by Delete is not assigned again.         *)
(***************************************************************************)
PathIdsInjective ==
    [][/\ \A p, q \in AllPaths :
              (db'.id[p] # 0 /\ db'.id[q] # 0 /\ p # q) => db'.id[p] # db'.id[q]
       /\ \A p \in AllPaths : db'.id[p] # 0 => db'.pkg[db'.id[p]].path = p
       /\ \A i \in Ids : db'.pkg[i] # NoPkg => db'.id[db'.pkg[i].path] = i
       /\ db'.maxPackageId >= db.maxPackageId
       /\ \A p \in AllPaths :
              /\ db'.id[p] # 0 => db'.id[p] <= db'.maxPackageId
              /\ (db.id[p] = 0 /\ db'.id[p] # 0) => db'.id[p] > db.maxPackageId
              /\ (db.id[p] # 0 /\ db'.id[p] # 0) => db'.id[p] = db.id[p]]_vars

\* a was put and deleted, then a/b was put: it has the second id, and the
\* first id belongs to no path
PathIdsInjectiveWitness ==
    /\ db.id[PA] = 0
    /\ db.id[PAB] = 2
    /\ db.maxPackageId = 2
    /\ db.pkg[1] = NoPkg
    /\ db.pkg[2].path = PAB

-----------------------------------------------------------------------------
(* Properties of Database.ImportGraph *)

\* the paths node k (from 0) imports, as the walk saw them
importedBy(g, k) == IF k = 0 THEN Range(g.imports) ELSE Range(importsOf(g.got[k].terms))

\* C27, in part: every ImportGraph call returns, whatever the stored import
\* graph, cycles included.
ImportGraphTerminates == (call.pc \in {"flush", "receive"}) ~> (call.pc = "done")

\* C27, in part: at the return there was one lookup per node other than the
\* root and one reply per lookup, the root is nodes[0], and every edge [i, j]
\* has valid indexes with nodes[j] imported by nodes[i].
ImportGraphLookupsAndEdges ==
    call.pc = "done" =>
        /\ call.nodes[1] = call.root
        /\ call.sends = Len(call.nodes) - 1
        /\ call.recvs = call.sends
        /\ call.wire = <<>> /\ call.out = <<>> /\ call.replies = <<>>
        /\ \A e \in Range(call.edges) :
              /\ e[1] \in 0..(Len(call.nodes) - 1)
              /\ e[2] \in 0..(Len(call.nodes) - 1)
              /\ call.nodes[e[2] + 1] \in importedBy(call, e[1])

\* C27: ImportGraph returns with one lookup per node other than the root, one
\* reply per lookup, each import path at most once in nodes with the root at
\* index 0, and every edge [i, j] between valid indexes with nodes[j] imported
\* by nodes[i].
ImportGraphResult ==
    call.pc = "done" =>
        /\ ImportGraphLookupsAndEdges
        /\ \A j, k \in 1..Len(call.nodes) : call.nodes[j] = call.nodes[k] => j = k

\* a walk over a cycle of two stored packages that returned
ImportGraphCycleWitness ==
    /\ call.pc = "done"
    /\ call.nodes = <<PA, PAB>>
    /\ call.edges = <<<<0, 1>>, <<1, 0>>>>

-----------------------------------------------------------------------------
(* Properties of the Index under concurrent calls *)

\* C28, in part: Put, Remove, Query and Subdirs touch the Index only with
\* idx.mu held, and Query and Subdirs never read beside a writer.
LockedCallsHoldMu ==
    /\ ~call.w.bare
    /\ ~(call.writer /\ call.readers > 0)
    /\ call.r.op \in {"Query", "Subdirs"} => ~call.r.bare /\ ~call.r.raced

\* C28: every read or write of ids, pkgs and rindex is made with idx.mu held,
\* so no reader observes them while Put or Remove is between Lock and Unlock;
\* Get included.
IndexAccessHoldsMu ==
    /\ ~call.w.bare
    /\ ~call.r.bare
    /\ ~call.r.raced

-----------------------------------------------------------------------------
(* Properties of the posting lists and the identifiers *)

\* the terms of this model that the package stored under id yields
yields(x, id) ==
    IF pkgAt(x, id) = NilPkg THEN {} ELSE packageTerms(pkgAt(x, id)) \cap IdxTerms

\* every posting list is strictly increasing, and id is in rindex[t] exactly
\* when the package stored under id yields t (a directory yields no term)
postingsAgree(x) ==
    /\ \A t \in IdxTerms : \A k \in 1..(Len(x.rindex[t]) - 1) : x.rindex[t][k] < x.rindex[t][k + 1]
    /\ \A t \in IdxTerms : \A id \in Range(x.rindex[t]) :
          id < pkgsLen(x) /\ t \in yields(x, id)
    /\ \A id \in DOMAIN x.pkgs.at : \A t \in yields(x, id) : id \in Range(x.rindex[t])

\* C29: after any sequence of Put and Remove every posting list is strictly
\* increasing, id is in rindex[t] exactly when the package stored under id
\* yields t, a removed package is in no posting list, and a path keeps its id.
PostingListsAgree ==
    [][/\ postingsAgree(idx')
       /\ \A path \in DOMAIN idx.ids : idx.ids[path] # -1 => idx'.ids[path] = idx.ids[path]
       /\ \A path \in IdxPaths :
             call'.fn = "Remove" /\ call'.path = path /\ idx.ids[path] # -1
                => \A t \in IdxTerms : idx.ids[path] \notin Range(idx'.rindex[t])]_vars

\* the import paths put near the end of the range that have an id
assigned(x) == {path \in DOMAIN x.ids : x.ids[path] # -1}

\* C30: Index.Put gives distinct import paths distinct ids, for any number of
\* packages, more than 2^16 included: no id of a path equals the id of
\* another path or of one of the directories put before.
PutIdsDistinct ==
    \A path \in assigned(idx) :
        /\ \A other \in assigned(idx) : other # path => idx.ids[other] # idx.ids[path]
        /\ \A k \in 0..(Bulk - 1) : bulkId(k) # idx.ids[path]

-----------------------------------------------------------------------------
(* Properties of the canonical method declaration *)

RECURSIVE typesOf(_), stripNames(_)
\* the sequence of types a field list declares, one per name
typesOf(fields) ==
    IF fields = <<>> THEN <<>>
    ELSE [k \in 1..fieldCount(Head(fields)) |-> stripNames(Head(fields).Type)] \o typesOf(Tail(fields))

\* a type without the parameter and result names of its function types
stripNames(t) ==
    IF t.kind = "FuncType"
    THEN FuncTypeOf(FieldList([k \in 1..Len(typesOf(t.Params.List)) |-> Field(<<>>, typesOf(t.Params.List)[k])]),
                    FieldList([k \in 1..Len(typesOf(t.Results.List)) |-> Field(<<>>, typesOf(t.Results.List)[k])]))
    ELSE IF t.kind = "Ident" THEN t
    ELSE IF t.kind = "Ellipsis" THEN Ellipsis(stripNames(t.Elt))
    ELSE [t EXCEPT !.X = stripNames(t.X)]

\* the output between its first '(' ... ')' pair and the end: the results
resultsOf(n) == SubSeq(canonical(n), Len(writeParams(<<>>, n.Params, TRUE)) + 1, Len(canonical(n)))

\* C21: signatures with the same sequences of parameter and result types get
\* the same canonical bytes, whatever their parameter and result names; no
\* name is in the output; one result is written bare, several in parentheses.
CanonicalIgnoresNames ==
    call.fn = "method" =>
        /\ (typesOf(call.a.Params.List) = typesOf(call.b.Params.List)
            /\ typesOf(call.a.Results.List) = typesOf(call.b.Results.List))
              => call.bufA = call.bufB
        /\ call.bufA = canonical(call.a)
        /\ \A name \in ParamNames : Index(call.bufA, name) = -1
        /\ NumFields(call.a.Results.List) = 1 => Head(resultsOf(call.a)) # "("
        /\ NumFields(call.a.Results.List) > 1
              => Head(resultsOf(call.a)) = "(" /\ call.bufA[Len(call.bufA)] = ")"

\* (a, b int) error and (x int, y int) (x error) were fingerprinted
CanonicalIgnoresNamesWitness ==
    /\ call.fn = "method"
    /\ call.a.Params = FieldList(<<Field(<<<<"a">>, <<"b">>>>, IdentInt)>>)
    /\ call.b.Params = FieldList(<<Field(<<<<"x">>>>, IdentInt), Field(<<<<"y">>>>, IdentInt)>>)
    /\ call.a.Results = FieldList(<<Field(<<<<"a">>, <<"b">>>>, IdentInt)>>)
    /\ call.b.Results = FieldList(<<Field(<<>>, IdentInt), Field(<<>>, IdentInt)>>)
    /\ call.bufA = <<"(", "i", "n", "t", ",", "i", "n", "t", ")", "(", "i", "n", "t", ",", "i", "n", "t", ")">>
    /\ call.bufB = call.bufA

-----------------------------------------------------------------------------
(* Properties of ValidRemotePath *)

\* the segments of a path: the parts between its slashes
segmentsOf(p) == Split(p)

\* the first segment ends in a recognised top-level domain
hasTLD(p) == \E tld \in validTLD : HasSuffix(segmentsOf(p)[1], tld)

\* a later segment is empty, is testdata, or begins with '.' or '_'
hasBadSegment(p) ==
    \E k \in 2..Len(segmentsOf(p)) :
        LET seg == segmentsOf(p)[k] IN
        seg = <<>> \/ seg = <<"t", "e", "s", "t", "d", "a", "t", "a">> \/ seg[1] \in {".", "_"}

\* somewhere in p there is "/src/pkg/" and what follows it is exactly the
\* path of a standard package
hasStandardAfterSrcPkg(p) ==
    \E i \in 1..Len(p) :
        /\ i + Len(SrcPkgSlash) - 1 <= Len(p)
        /\ SubSeq(p, i, i + Len(SrcPkgSlash) - 1) = SrcPkgSlash
        /\ Suffix(p, i + Len(SrcPkgSlash) - 1) \in stdlibPackages

\* a host: labels of letters, digits and '-' joined by dots, two or more
isHost(s) ==
    /\ \A i \in 1..Len(s) : s[i] \in hostChars \cup {"."}
    /\ s # <<>> /\ s[1] # "." /\ s[Len(s)] # "."
    /\ \A i \in 1..(Len(s) - 1) : ~(s[i] = "." /\ s[i + 1] = ".")

\* a host with a recognised top-level domain, alone or with ordinary segments
isOrdinary(p) ==
    /\ isHost(segmentsOf(p)[1]) /\ hasTLD(p)
    /\ ~hasBadSegment(p)
    /\ \A i \in 1..Len(p) : p[i] \notin badRunes
    /\ ~hasStandardAfterSrcPkg(p)

\* C22, in part: the same with the standard package path taken after the
\* first "/src/pkg/" of the path only.
ValidRemotePathFirstSrcPkg ==
    call.fn = "ValidRemotePath" =>
        /\ (~hasTLD(call.importPath) \/ hasBadSegment(call.importPath) \/ isStandardCopy(call.importPath))
              => ~call.res
        /\ (isOrdinary(call.importPath) => call.res)

\* C22: ValidRemotePath is false when the first segment has no recognised
\* top-level domain, when a later segment is empty, testdata or begins with
\* '.' or '_', and when the path has "/src/pkg/" followed by exactly a
\* standard package path; it is true for a host with a recognised top-level
\* domain, alone or followed by ordinary segments.
ValidRemotePathRules ==
    call.fn = "ValidRemotePath" =>
        /\ (~hasTLD(call.importPath) \/ hasBadSegment(call.importPath)
               \/ hasStandardAfterSrcPkg(call.importPath))
              => ~call.res
        /\ (isOrdinary(call.importPath) => call.res)

-----------------------------------------------------------------------------
(* Properties of fetchMeta *)

\* the positions of the tokens before the first </head> or <body>
scannedPositions(tokens) ==
    {i \in 1..Len(tokens) :
        \A j \in 1..i :
            ~(tokens[j].kind = "EndElement" /\ tokens[j].Local \in {"head", "HEAD"})
            /\ ~(tokens[j].kind = "StartElement" /\ tokens[j].Local \in {"body", "Body"})}

\* a token is a go-import meta whose content has three fields, the first of
\* them the import path or a prefix of it that a '/' follows
isMatchingMeta(t, importPath) ==
    /\ t.kind = "StartElement" /\ t.Local \in {"meta", "META"} /\ t.name = "go-import"
    /\ Len(Fields(t.content)) = 3
    /\ (importPath = Fields(t.content)[1] \/ HasPrefix(importPath, Fields(t.content)[1] \o <<"/">>))

matchingPositions(tokens, importPath) ==
    {i \in scannedPositions(tokens) : isMatchingMeta(tokens[i], importPath)}

\* C23: of the go-import metas before the first </head> or <body>, those
\* count whose content has three fields and whose first field is the import
\* path or a prefix of it followed by '/'; one such meta gives its root, vcs
\* and repo, none gives not-found, a second one gives not-found, and metas
\* after </head> or <body> are ignored.
MetaDiscoveryRules ==
    (call.fn = "fetchMeta" /\ call.m.err # "RemoteError") =>
        LET at == matchingPositions(call.resp.tokens, call.importPath) IN
        /\ Cardinality(at) = 0 => call.m.err = "<meta> not found."
        /\ Cardinality(at) >= 2 => call.m.err = "More than one <meta> found"
        /\ Cardinality(at) = 1 =>
              /\ call.m.err = "nil"
              /\ \A i \in at :
                    /\ call.m.projectRoot = Fields(call.resp.tokens[i].content)[1]
                    /\ call.m.vcs = Fields(call.resp.tokens[i].content)[2]
                    /\ call.m.repo = Fields(call.resp.tokens[i].content)[3]

\* a meta of the parent path was found although a meta with a prefix that no
\* '/' follows came first and a matching one after </head>
MetaDiscoveryRulesWitness ==
    /\ call.fn = "fetchMeta"
    /\ call.resp.tokens = <<StartElement("meta", "go-import", ContentNoBoundary),
                            StartElement("META", "go-import", ContentParent),
                            EndElement("HEAD")>>
    /\ call.m.err = "nil"
    /\ call.m.projectRoot = MetaParent

\* two matching metas before </head> were found
MetaDiscoveryTwoWitness ==
    /\ call.fn = "fetchMeta"
    /\ call.resp.tokens = <<StartElement("meta", "go-import", ContentExact),
                            CharData,
                            StartElement("META", "go-import", ContentParent)>>
    /\ call.m.err = "More than one <meta> found"

====
